---- MODULE Spec2Model ----
(***************************************************************************)
(* A model of the fflag command-line parser: the flag registry (short map  *)
(* and longest-unique-prefix trie), the argument classifier, the cluster   *)
(* disambiguator, Flag.Set and the parse loop.                             *)
(*                                                                         *)
(* Strings are sequences of one-character strings; a rune is a             *)
(* one-character string.  A *Flag is the index of the flag in flagTab; the *)
(* nil *Flag is NilFlag.                                                   *)
(***************************************************************************)
EXTENDS Integers, Sequences, FiniteSets, TLC

VARIABLES
    flagTab,            \* the Flag objects created so far (identity and configuration)
    LongTrie,           \* FlagSet.LongTrie
    ShortDict,          \* FlagSet.ShortDict
    HasHyphenNumIdiom,  \* FlagSet.HasHyphenNumIdiom
    HasNumberShorts,    \* FlagSet.HasNumberShorts
    FlagList,           \* FlagSet.Group().FlagList
    addErrs,            \* number of AddFlag calls that returned an error
    InputArgs,          \* FlagSet.InputArgs
    OutputArgs,         \* FlagSet.OutputArgs
    OnFail,             \* FlagSet.OnFail (the bits that are set)
    Mutex,              \* FlagSet.Mutex
    Count,              \* Flag.Count of every flag
    Value,              \* the target *Flag.Value points to, for every flag
    PosixEquals,        \* package toggles
    PosixDoubleHyphen,
    PosixOperandStop,
    pc,                 \* where the program is: idle, scanning, done, exited, panicked, nilderef
    argPos,             \* the loop counter i of FlagSet.parse
    setLog,             \* history: the calls of Flag.Set made since the last Parse call
    errOut,             \* what Failf reported since the last Parse call
    iter,               \* history: the state the last loop iteration started from
    args,               \* the arguments given to the last Parse call; in the alias
                        \* specification the identities given to the last registration
    parses,             \* number of Parse calls made
    cbLog,              \* history: the callback invocations of the last Parse or Set call
    optLog,             \* history: the target kind and options of each NewFlag call
    FailExitCode,       \* FlagSet.FailExitCode
    exitCode,           \* the status os.Exit was called with, as a one-element
                        \* sequence; empty while os.Exit has not been called
    failfs              \* history: the number of Failf calls made since the last
                        \* Parse or Set call

regVars   == <<flagTab, LongTrie, ShortDict, HasHyphenNumIdiom, HasNumberShorts,
               FlagList, addErrs, optLog>>
parseVars == <<InputArgs, OutputArgs, Mutex, Count, Value, pc, argPos, setLog,
               errOut, iter, args, parses, cbLog, exitCode, failfs>>
cfgVars   == <<OnFail, PosixEquals, PosixDoubleHyphen, PosixOperandStop, FailExitCode>>
vars      == <<regVars, parseVars, cfgVars>>

(***************************************************************************)
(* Bounds                                                                  *)
(***************************************************************************)
MaxFlags == 3       \* AddFlag calls in the registry specification
MaxArgsStop == 3    \* arguments of one Parse call, halting specification
MaxArgsCluster == 2 \* arguments of one Parse call, cluster specification
MaxArgsMutex == 2   \* arguments of one Parse call, mutex specification
MaxParses == 2      \* Parse calls on one registry, mutex specification
MaxArgsNum == 2     \* tokens of an argument list, -NUM specification
MaxOpts == 2        \* options given to one NewFlag call
MaxSetCalls == 3    \* Flag.Set calls made on one flag
MaxArgsChain == 1    \* arguments of one Parse call, alias-chain specification
MaxArgsFail == 2     \* arguments of one Parse call, failure-policy specification
MaxArgsPos == 4      \* arguments of one Parse call, position specification
MaxTokLen == 4       \* runes of one argument, classifier specification

(***************************************************************************)
(* Runes and strings                                                       *)
(***************************************************************************)
NilFlag == 0
NoShort == "NUL"                \* rune(0)
NoLong == << >>                 \* ""
ErrRuneEmptyStr == "ERR-17"     \* rune(-17)
NilArg == <<"nil">>             \* the nil interface value passed to Flag.Set
Digits == {"0", "1", "2", "3", "4", "5", "6", "7", "8", "9"}

\* FirstRune: the first rune and the rest of the string
FirstRune(s) ==
    IF Len(s) = 0 THEN [r |-> ErrRuneEmptyStr, tail |-> << >>]
    ELSE [r |-> Head(s), tail |-> Tail(s)]

IsPrefix(p, s) == Len(p) <= Len(s) /\ SubSeq(s, 1, Len(p)) = p

Prefixes(s) == {SubSeq(s, 1, n) : n \in 0..Len(s)}

(***************************************************************************)
(* The prefix trie (pkg/trie)                                              *)
(***************************************************************************)
EmptyNodes == [r \in {} |-> 0]

\* NewTrie
NewTrie == [Item |-> NilFlag, Tail |-> << >>, Nodes |-> EmptyNodes]

RECURSIVE TrieGet(_, _)
\* TrieNode.Get with the tail compared for equality instead of as a prefix
TrieGetWholeTail(t, key) ==
    IF Len(key) = 0 /\ DOMAIN t.Nodes = {} THEN t.Item
    ELSE IF t.Tail = key THEN t.Item
    ELSE IF key # << >> /\ Head(key) \in DOMAIN t.Nodes
         THEN TrieGet(t.Nodes[Head(key)], Tail(key))
         ELSE NilFlag

\* TrieNode.Get: the item of the key, NilFlag for no match
TrieGet(t, key) ==
    IF Len(key) = 0 /\ DOMAIN t.Nodes = {} THEN t.Item
    ELSE IF Len(t.Tail) >= Len(key) /\ SubSeq(t.Tail, 1, Len(key)) = key THEN t.Item
    ELSE IF Head(key) \in DOMAIN t.Nodes
         THEN TrieGet(t.Nodes[Head(key)], Tail(key))
         ELSE NilFlag

\* PushTailDown without "t.Item = nil"
PushTailDownKeepItem(t) ==
    IF Len(t.Tail) > 0
    THEN [Item |-> t.Item, Tail |-> << >>,
          Nodes |-> (Head(t.Tail) :> [Item |-> t.Item, Tail |-> Tail(t.Tail),
                                      Nodes |-> EmptyNodes]) @@ t.Nodes]
    ELSE t

\* PushTailDown that gives the new node the whole tail, first rune included
PushTailDownWholeTail(t) ==
    IF Len(t.Tail) > 0
    THEN [Item |-> NilFlag, Tail |-> << >>,
          Nodes |-> (Head(t.Tail) :> [Item |-> t.Item, Tail |-> t.Tail,
                                      Nodes |-> EmptyNodes]) @@ t.Nodes]
    ELSE t

\* The first step of TrieNode.Add: a tail at this node is moved one level down
PushTailDown(t) ==
    IF Len(t.Tail) > 0
    THEN [Item |-> NilFlag, Tail |-> << >>,
          Nodes |-> (Head(t.Tail) :> [Item |-> t.Item, Tail |-> Tail(t.Tail),
                                      Nodes |-> EmptyNodes]) @@ t.Nodes]
    ELSE t

\* TrieNode.Add: the node after the call (it is changed in place, also when
\* the call fails further down) and whether an error is returned
RECURSIVE TrieAdd(_, _, _)
TrieAdd(t, key, item) ==
    IF Len(key) = 0
    THEN IF t.Item = NilFlag
         THEN [t |-> [t EXCEPT !.Item = item], err |-> FALSE]
         ELSE [t |-> t, err |-> TRUE]
    ELSE IF DOMAIN t.Nodes = {} /\ Len(t.Tail) = 0 /\ t.Item = NilFlag
    THEN [t |-> [t EXCEPT !.Tail = key, !.Item = item], err |-> FALSE]
    ELSE LET t1 == PushTailDown(t)
             r == Head(key)
         IN IF r \in DOMAIN t1.Nodes
            THEN LET sub == TrieAdd(t1.Nodes[r], Tail(key), item)
                 IN [t |-> [t1 EXCEPT !.Nodes[r] = sub.t], err |-> sub.err]
            ELSE [t |-> [t1 EXCEPT !.Nodes =
                            (r :> [Item |-> item, Tail |-> Tail(key),
                                   Nodes |-> EmptyNodes]) @@ @],
                  err |-> FALSE]

(***************************************************************************)
(* The registry (FlagSet): lookups and AddFlag                             *)
(***************************************************************************)
\* no rune counts as a number
IsNumberRuneNever(r) == FALSE

\* unicode.IsNumber on the runes of the model
IsNumberRune(r) == r \in Digits

\* The registration state of a FlagSet as one record
Registry == [LongTrie |-> LongTrie, ShortDict |-> ShortDict,
             HasHyphenNumIdiom |-> HasHyphenNumIdiom,
             HasNumberShorts |-> HasNumberShorts, FlagList |-> FlagList]

EmptyRegistry == [LongTrie |-> NewTrie, ShortDict |-> EmptyNodes,
                  HasHyphenNumIdiom |-> FALSE, HasNumberShorts |-> FALSE,
                  FlagList |-> << >>]

\* FlagSet.LookupShort
LookupShort(R, r) ==
    IF r = NoShort
    THEN IF R.HasHyphenNumIdiom THEN R.ShortDict[NoShort] ELSE NilFlag
    ELSE IF r \in DOMAIN R.ShortDict THEN R.ShortDict[r] ELSE NilFlag

\* FlagSet.LookupLong: a one-rune query is tried as a short first
LookupLong(R, long) ==
    LET fr == FirstRune(long)
        f == IF Len(fr.tail) = 0 THEN LookupShort(R, fr.r) ELSE NilFlag
    IN IF f # NilFlag THEN f ELSE TrieGet(R.LongTrie, long)

\* IsValidPair: a short or a long, or neither (the -NUM idiom).  The runes and
\* names the model registers are all valid ones.
IsValidPair(short, long) == TRUE

\* FlagSet.AddFlag of the flag object id with identity (short, long): the
\* registry after the call and whether an error is returned
AddFlag(R, id, short, long) ==
    IF ~IsValidPair(short, long) THEN [R |-> R, err |-> TRUE]
    ELSE
    LET a == IF long # NoLong THEN TrieAdd(R.LongTrie, long, id)
             ELSE [t |-> R.LongTrie, err |-> FALSE]
        R1 == [R EXCEPT !.LongTrie = a.t]
    IN IF a.err THEN [R |-> R1, err |-> TRUE]
       ELSE IF short # NoShort /\ short \in DOMAIN R1.ShortDict
       THEN [R |-> R1, err |-> TRUE]
       ELSE IF IsNumberRune(short) /\ R1.HasHyphenNumIdiom
       THEN [R |-> R1, err |-> TRUE]
       ELSE
       LET R2 == IF IsNumberRune(short) THEN [R1 EXCEPT !.HasNumberShorts = TRUE]
                 ELSE R1
           R3 == IF short # NoShort \/ long = NoLong
                 THEN [R2 EXCEPT !.ShortDict = (short :> id) @@ @]
                 ELSE R2
           R4 == [R3 EXCEPT !.FlagList = Append(@, id)]
       IN IF short = NoShort /\ long = NoLong
          THEN IF R3.HasHyphenNumIdiom THEN [R |-> R3, err |-> TRUE]
               ELSE IF R3.HasNumberShorts THEN [R |-> R3, err |-> TRUE]
               ELSE [R |-> [R4 EXCEPT !.HasHyphenNumIdiom = TRUE], err |-> FALSE]
          ELSE [R |-> R4, err |-> FALSE]

(***************************************************************************)
(* Value conversion (pkg/types)                                            *)
(***************************************************************************)
DigitVal(d) == CASE d = "0" -> 0 [] d = "1" -> 1 [] d = "2" -> 2 [] d = "3" -> 3
                 [] d = "4" -> 4 [] d = "5" -> 5 [] d = "6" -> 6 [] d = "7" -> 7
                 [] d = "8" -> 8 [] d = "9" -> 9

DigitChar(n) == CASE n = 0 -> "0" [] n = 1 -> "1" [] n = 2 -> "2" [] n = 3 -> "3"
                  [] n = 4 -> "4" [] n = 5 -> "5" [] n = 6 -> "6" [] n = 7 -> "7"
                  [] n = 8 -> "8" [] n = 9 -> "9"

\* the digits of the largest 64-bit unsigned value, 2^64 - 1
MaxUint64 == <<"1", "8", "4", "4", "6", "7", "4", "4", "0", "7", "3", "7", "0", "9",
               "5", "5", "1", "6", "1", "5">>

\* a digit string without its leading zeros
RECURSIVE StripZeros(_)
StripZeros(s) == IF Len(s) > 0 /\ s[1] = "0" THEN StripZeros(Tail(s)) ELSE s

\* a <= b for digit strings of the same length
RECURSIVE DigitsLeq(_, _)
DigitsLeq(a, b) ==
    IF Len(a) = 0 THEN TRUE
    ELSE IF a[1] # b[1] THEN DigitVal(a[1]) < DigitVal(b[1])
    ELSE DigitsLeq(Tail(a), Tail(b))

\* the value of a digit string fits 64 bits
FitsUint64(s) ==
    \E t \in {StripZeros(s)} :
        \/ Len(t) < Len(MaxUint64)
        \/ Len(t) = Len(MaxUint64) /\ DigitsLeq(t, MaxUint64)

\* strconv.ParseUint(s, 10, 64) succeeds: s is a non-empty string of decimal
\* digits whose value fits 64 bits
ParseUintOk(s) ==
    /\ Len(s) > 0
    /\ \A k \in 1..Len(s) : s[k] \in Digits
    /\ FitsUint64(s)

RECURSIVE ParseUintVal(_)
ParseUintVal(s) ==
    IF Len(s) = 0 THEN 0
    ELSE 10 * ParseUintVal(SubSeq(s, 1, Len(s) - 1)) + DigitVal(s[Len(s)])

RECURSIVE UintStr(_)
UintStr(n) == IF n < 10 THEN <<DigitChar(n)>>
              ELSE UintStr(n \div 10) \o <<DigitChar(n % 10)>>

\* strconv.ParseBool
BoolTrueStrs == {<<"1">>, <<"t">>, <<"T">>, <<"T", "R", "U", "E">>,
                 <<"t", "r", "u", "e">>, <<"T", "r", "u", "e">>}
BoolFalseStrs == {<<"0">>, <<"f">>, <<"F">>, <<"F", "A", "L", "S", "E">>,
                  <<"f", "a", "l", "s", "e">>, <<"F", "a", "l", "s", "e">>}

\* types.FromStr on a scalar target of the given kind: whether it fails, and
\* the value it stores
FromStr(kind, str) ==
    CASE kind = "bool" ->
            IF str \in BoolTrueStrs THEN [err |-> FALSE, v |-> TRUE]
            ELSE IF str \in BoolFalseStrs THEN [err |-> FALSE, v |-> FALSE]
            ELSE [err |-> TRUE, v |-> FALSE]
      [] kind = "uint" ->
            IF ParseUintOk(str) THEN [err |-> FALSE, v |-> ParseUintVal(str)]
            ELSE [err |-> TRUE, v |-> 0]
      [] kind = "string" -> [err |-> FALSE, v |-> str]

\* types.StrConv of a value of the given kind
StrConv(kind, v) ==
    CASE kind = "bool" -> IF v THEN <<"t", "r", "u", "e">>
                          ELSE <<"f", "a", "l", "s", "e">>
      [] kind = "uint" -> UintStr(v)
      [] kind = "string" -> v

(***************************************************************************)
(* The argument classifier                                                 *)
(***************************************************************************)
\* ArgMask predicates, on the set of bits that are set
IsFlag(am) == "Flag" \in am
IsDoubleHyphen(am) == "Hyphen" \in am /\ "Long" \in am
IsShortFlag(am) == IsFlag(am) /\ "Long" \notin am /\ "Cluster" \notin am
IsLongFlag(am) == IsFlag(am) /\ "Long" \in am
IsCluster(am) == IsFlag(am) /\ "Cluster" \in am
\* a mask whose number bit is never seen
IsNumberNever(am) == FALSE
IsNumber(am) == "Number" \in am
HasParam(am) == "Param" \in am

\* index of the first "=" of s, 0 if there is none (strings.SplitN(s, "=", 2))
FirstEq(s) == IF \E k \in 1..Len(s) : s[k] = "="
              THEN CHOOSE k \in 1..Len(s) :
                       s[k] = "=" /\ \A j \in 1..(k - 1) : s[j] # "="
              ELSE 0

\* a cluster counts as a number when its last letter is a digit
ClusterIsNumberLastDigit(flag, param) == param = << >> /\ flag[Len(flag)] \in Digits

\* parseSingleArg, a cluster: the number bit is set if there is no parameter
\* text and the whole cluster is an unsigned integer
ClusterIsNumber(flag, param) == param = << >> /\ ParseUintOk(flag)

\* a long path that sets the number bit as the short path does
LongFlagMaskNumeric(bits, flag) ==
    bits \cup (IF flag # << >> /\ ParseUintOk(flag) THEN {"Number"} ELSE {})

\* parseSingleArg, a single long flag: the mask is returned as it is, the
\* number bit is not looked at
LongFlagMask(bits, flag) == bits

parseSingleArg(arg) ==
    IF Len(arg) < 2
    THEN [flags |-> << >>, param |-> arg,
          argType |-> IF arg = <<"-">> THEN {"Hyphen"} ELSE {}]
    ELSE
    LET long == SubSeq(arg, 1, 2) = <<"-", "-">>
    IN IF ~long /\ arg[1] # "-"
       THEN [flags |-> << >>, param |-> arg, argType |-> {}]
       ELSE
       LET flag0 == IF long THEN SubSeq(arg, 3, Len(arg)) ELSE Tail(arg)
           lb == IF long THEN {"Long"} ELSE {}
       IN IF Len(flag0) = 0
          THEN [flags |-> << >>, param |-> <<"-", "-">>, argType |-> lb \cup {"Hyphen"}]
          ELSE
          LET eq == FirstEq(flag0)
              flag == IF eq > 0 THEN SubSeq(flag0, 1, eq - 1) ELSE flag0
              param == IF eq > 0 THEN SubSeq(flag0, eq + 1, Len(flag0)) ELSE << >>
              bits == lb \cup {"Flag"} \cup (IF eq > 0 THEN {"Param"} ELSE {})
              fr == FirstRune(flag)
          IN IF long THEN [flags |-> flag, param |-> param,
                           argType |-> LongFlagMask(bits, flag)]
             ELSE IF fr.tail = << >>
             THEN [flags |-> <<fr.r>>, param |-> param,
                   argType |-> bits \cup (IF IsNumberRune(fr.r) THEN {"Number"} ELSE {})]
             ELSE [flags |-> flag, param |-> param,
                   argType |-> bits \cup {"Cluster"} \cup
                       (IF ClusterIsNumber(flag, param) THEN {"Number"} ELSE {})]

(***************************************************************************)
(* Flags: configuration and Flag.Set                                       *)
(***************************************************************************)
\* A Flag object as NewFlag and its options leave it.  Kind is the type of
\* the bound target (bool, string, uint); Default is the list given to
\* WithDefault (empty: none; DefaultIsSlice: an enumerated list); Rejects is
\* the set of arguments for which the callback function returns an error.
\* No flag of the model binds a target with its own string setter
\* (types.SetValue).
NewFlag(short, long, kind, mutexes) ==
    [Short |-> short, Long |-> long, Kind |-> kind, Default |-> << >>,
     DefaultIsSlice |-> FALSE, Repeats |-> FALSE, IgnoreRepeats |-> FALSE,
     Counter |-> FALSE, Callback |-> FALSE, Rejects |-> {}, AliasFor |-> NilFlag,
     Mutexes |-> mutexes]

\* the zero value of a target
ZeroValue(kind) == CASE kind = "bool" -> FALSE [] kind = "uint" -> 0
                     [] kind = "string" -> << >>

\* the element of a one-element set; "The({e(x) : x \in {v}})" is e(v) with v
\* evaluated once
The(S) == CHOOSE x \in S : TRUE

(***************************************************************************)
(* Flag options.  An option takes the flag under construction, as the      *)
(* record [cfg, value, panicked]: the Flag object, its target, and whether *)
(* an option has panicked.                                                 *)
(***************************************************************************)
\* Flag.IsNumber: the target is a number
KindIsNumber(kind) == kind = "uint"

\* the defaults the model gives to WithDefault: a scalar and a list
ScalarDefault(kind) == CASE kind = "bool" -> <<TRUE>> [] kind = "uint" -> <<25>>
                         [] kind = "string" -> <<<<"x">>>>
ListDefault(kind) == CASE kind = "bool" -> <<TRUE, FALSE>> [] kind = "uint" -> <<5, 10, 15>>
                       [] kind = "string" -> <<<<"x">>, <<"y">>>>

\* WithDefault(def): the default is recorded and the target is set to it (to
\* its first element if it is a list)
WithDefault(b, def, isSlice) ==
    [b EXCEPT !.cfg.Default = def, !.cfg.DefaultIsSlice = isSlice,
              !.value = FromStr(b.cfg.Kind, StrConv(b.cfg.Kind, def[1])).v]

\* WithRepeats(ignore): only a warning if the flag has a callback or is a
\* counter
WithRepeats(b, ignore) ==
    IF b.cfg.Callback \/ b.cfg.Counter THEN b
    ELSE [b EXCEPT !.cfg.Repeats = TRUE, !.cfg.IgnoreRepeats = ignore]

\* AsCounter(): panics with a callback or a target that is no number; only a
\* warning if the flag is repeatable
AsCounter(b) ==
    IF b.cfg.Callback \/ ~KindIsNumber(b.cfg.Kind) THEN [b EXCEPT !.panicked = TRUE]
    ELSE [b EXCEPT !.cfg.Counter = TRUE]

\* WithCallback(callback): panics for a counter
WithCallback(b, rejects) ==
    IF b.cfg.Counter THEN [b EXCEPT !.panicked = TRUE]
    ELSE [b EXCEPT !.cfg.Callback = TRUE, !.cfg.Rejects = rejects]

\* the options of the model, by name
ModeOptions == {"WithRepeats(false)", "WithRepeats(true)", "AsCounter", "WithCallback",
                "WithCallback(strict)"}
FlagOptions == ModeOptions \cup {"WithDefault", "WithDefault(list)"}

\* opt(f), for an option of the model
ApplyOpt(b, opt) ==
    CASE opt = "WithRepeats(false)" -> WithRepeats(b, FALSE)
      [] opt = "WithRepeats(true)" -> WithRepeats(b, TRUE)
      [] opt = "AsCounter" -> AsCounter(b)
      [] opt = "WithCallback" -> WithCallback(b, {})
      [] opt = "WithCallback(strict)" -> WithCallback(b, {<< >>})
      [] opt = "WithDefault" -> WithDefault(b, ScalarDefault(b.cfg.Kind), FALSE)
      [] opt = "WithDefault(list)" -> WithDefault(b, ListDefault(b.cfg.Kind), TRUE)

\* NewFlag, "for _, opt := range opts { opt(f) }": a panic ends the loop
RECURSIVE ApplyOpts(_, _)
ApplyOpts(b, opts) ==
    IF opts = << >> \/ b.panicked THEN b
    ELSE ApplyOpts(The({ApplyOpt(c, Head(opts)) : c \in {b}}), Tail(opts))

\* NewFlag(&target, short, long, usage, opts...) for a target holding the
\* zero value of its kind
NewFlagWith(short, long, kind, opts) ==
    ApplyOpts([cfg |-> NewFlag(short, long, kind, {}), value |-> ZeroValue(kind),
               panicked |-> FALSE], opts)

\* The part of the program state that Flag.Set and the parse loop thread
\* through one loop iteration.  halt is "run" while the process is alive.
Machine == [Count |-> Count, Value |-> Value, Mutex |-> Mutex, In |-> InputArgs,
            Out |-> OutputArgs, setLog |-> setLog, errOut |-> errOut,
            cbLog |-> cbLog, halt |-> "run", i |-> argPos, ret |-> FALSE,
            code |-> exitCode, failfs |-> failfs]

\* a Failf that tests the panic bit before the continue bit
FailfPanicFirst(m0, msg) ==
    The({IF m.halt # "run" THEN m
         ELSE [m EXCEPT !.errOut = IF "Silent" \in OnFail THEN @ ELSE Append(@, msg),
                        !.failfs = @ + 1,
                        !.halt = IF "Panic" \in OnFail THEN "panicked"
                                 ELSE IF "Continue" \in OnFail THEN "run"
                                 ELSE "exited",
                        !.code = IF "Continue" \notin OnFail /\ "Panic" \notin OnFail
                                 THEN <<FailExitCode>> ELSE @] : m \in {m0}})

\* FlagSet.Failf: print unless silent; return if continue, else panic if
\* panic, else os.Exit(fs.FailExitCode)
Failf(m0, msg) ==
    The({IF m.halt # "run" THEN m
         ELSE [m EXCEPT !.errOut = IF "Silent" \in OnFail THEN @ ELSE Append(@, msg),
                        !.failfs = @ + 1,
                        !.halt = IF "Continue" \in OnFail THEN "run"
                                 ELSE IF "Panic" \in OnFail THEN "panicked"
                                 ELSE "exited",
                        !.code = IF "Continue" \notin OnFail /\ "Panic" \notin OnFail
                                 THEN <<FailExitCode>> ELSE @] : m \in {m0}})

\* Flag.GetDefault, as a one-element sequence; empty when there is none
GetDefault(cfg) == IF cfg.Default = << >> THEN << >> ELSE <<cfg.Default[1]>>

\* Flag.InDefaults: the value is in the enumerated default list (or the
\* default is no list).  A value that cannot be coerced is reported.
\* an InDefaults that finds every value in the list
InDefaultsAlways(cfg, str) == TRUE

CoerceFails(cfg, str) == cfg.DefaultIsSlice /\ FromStr(cfg.Kind, str).err
InDefaults(cfg, str) ==
    \/ ~cfg.DefaultIsSlice
    \/ /\ ~FromStr(cfg.Kind, str).err
       /\ \E k \in 1..Len(cfg.Default) : cfg.Default[k] = FromStr(cfg.Kind, str).v

\* a last step of Flag.Set that takes the occurrence back when the
\* conversion fails
SetFromStrUncounted(m, g, str) ==
    The({IF c.err THEN [m |-> Failf([m EXCEPT !.Count[g] = @ - 1], "convert"),
                        err |-> TRUE]
         ELSE [m |-> [m EXCEPT !.Value[g] = c.v], err |-> FALSE] :
         c \in {FromStr(flagTab[g].Kind, str)}})

\* the last step of Flag.Set: types.FromStr on the target
SetFromStr(m, g, str) ==
    The({IF c.err THEN [m |-> Failf(m, "convert"), err |-> TRUE]
         ELSE [m |-> [m EXCEPT !.Value[g] = c.v], err |-> FALSE] :
         c \in {FromStr(flagTab[g].Kind, str)}})

\* a Flag.Set in which no occurrence is an illegal repeat
IllegalRepeatNever(cfg, n) == FALSE

\* Flag.Set, "if f.Count > 1 && !f.IsRepeatable()", n the incremented count
IllegalRepeat(cfg, n) == n > 1 /\ ~cfg.Repeats

\* a Flag.Set that sees no callback
HasCallbackNever(cfg) == FALSE

\* Flag.HasCallback
HasCallback(cfg) == cfg.Callback

\* the string a callback is given for the value of Set: v, _ := value.(string)
CallbackArg(value) == IF value = NilArg THEN << >> ELSE value

\* Flag.Set after the mutex check
SetBody(m0, f, value, pos) ==
    LET g == IF flagTab[f].AliasFor # NilFlag THEN flagTab[f].AliasFor ELSE f
        cfg == flagTab[g]
    IN The({
       LET n == m.Count[g] + 1
           m1 == [m EXCEPT !.Count[g] = n]
       IN IF cfg.AliasFor # NilFlag
          THEN [m |-> [m EXCEPT !.halt = "panicked"], err |-> TRUE]
          ELSE IF HasCallback(cfg)
          THEN [m |-> [m EXCEPT !.cbLog =
                          Append(@, [flag |-> g, arg |-> CallbackArg(value), pos |-> pos])],
                err |-> CallbackArg(value) \in cfg.Rejects]
          ELSE IF cfg.Counter THEN SetFromStr(m1, g, UintStr(n))
          ELSE IF IllegalRepeat(cfg, n)
          THEN [m |-> Failf(m1, "not repeatable"), err |-> TRUE]
          ELSE IF n > 1 /\ cfg.IgnoreRepeats THEN [m |-> m1, err |-> FALSE]
          ELSE IF value = NilArg
          THEN IF cfg.Kind = "bool"
               THEN [m |-> [m1 EXCEPT !.Value[g] =
                               ~(IF cfg.Default = << >> THEN FALSE ELSE cfg.Default[1])],
                     err |-> FALSE]
               ELSE IF GetDefault(cfg) = << >>
               THEN [m |-> Failf(m1, "nil with no default"), err |-> TRUE]
               ELSE SetFromStr(m1, g, StrConv(cfg.Kind, GetDefault(cfg)[1]))
          ELSE IF ~InDefaults(cfg, value)
          THEN [m |-> Failf(IF CoerceFails(cfg, value) THEN Failf(m1, "coerce") ELSE m1,
                            "not in defaults"),
                err |-> TRUE]
          ELSE SetFromStr(m1, g, value) : m \in {m0}})

\* The mutex check of Flag.Set: a group of the flag is claimed by another flag
MutexConflict(m, f) ==
    \E grp \in flagTab[f].Mutexes : m.Mutex[grp] \notin {NilFlag, f}

\* the flag claims its groups
MutexClaim(m, f) ==
    [m EXCEPT !.Mutex = [grp \in DOMAIN @ |->
                            IF grp \in flagTab[f].Mutexes THEN f ELSE @[grp]]]

\* Flag.Set(value, argPos): the machine after the call and whether an error
\* is returned.  The call is recorded in setLog.
FlagSet(m0, f, value, pos) ==
    The({IF m.halt # "run" THEN [m |-> m, err |-> FALSE]
         ELSE The({[m |-> [r.m EXCEPT !.setLog =
                              Append(@, [flag |-> f, value |-> value, pos |-> pos,
                                         err |-> r.err])],
                    err |-> r.err] :
                   r \in {IF MutexConflict(m, f) THEN [m |-> m, err |-> TRUE]
                          ELSE SetBody(MutexClaim(m, f), f, value, pos)}}) :
         m \in {m0}})

\* Flag.Test(value, argPos): would Set fail? Nothing is changed or reported.
FlagTest(m, f, value, pos) == FlagSet([m EXCEPT !.halt = "run"], f, value, pos).err

\* Flag.IsBool
IsBool(f) ==
    LET g == IF flagTab[f].AliasFor # NilFlag THEN flagTab[f].AliasFor ELSE f
    IN flagTab[g].Kind = "bool"

\* "err := f.Set(...); if err != nil { fs.Failf(...) }"
SetAndReport(m, f, value, pos, msg) ==
    The({IF r.err THEN Failf(r.m, msg) ELSE r.m : r \in {FlagSet(m, f, value, pos)}})

(***************************************************************************)
(* The cluster disambiguator and the parse loop                            *)
(***************************************************************************)
\* FlagSet.Lookup of a rune is LookupShort, of a string LookupLong
LookupRune(r) == LookupShort(Registry, r)
LookupStr(str) == LookupLong(Registry, str)

\* the option-argument disambiguateCluster builds from the unresolved rest
\* of a cluster, starting at letter i
ClusterOptarg(flags, param, i) ==
    SubSeq(flags, i, Len(flags)) \o (IF param # << >> THEN <<"=">> \o param ELSE << >>)

\* the walk that never sets the flag of the letter before
ClusterNilSetSkipped(m, prev, pos) == m

\* disambiguateCluster, "if prev != nil": the flag of the letter before the
\* one just resolved is set with nil
ClusterNilSet(m, prev, pos) ==
    IF prev # NilFlag THEN SetAndReport(m, prev, NilArg, pos, "failed to set with nil")
    ELSE m

\* FlagSet.disambiguateCluster, from letter i on with curr the flag of letter
\* i-1: the machine afterwards and the flag returned (NilFlag: fully handled).
\* Calling Set on the nil *Flag is a nil-pointer dereference.
RECURSIVE disambiguateCluster(_, _, _, _, _, _, _)
disambiguateCluster(m0, flags, param, argType, pos, i, prev) ==
    The({
    IF m.halt # "run" THEN [m |-> m, flag |-> NilFlag]
    ELSE IF i > Len(flags) THEN [m |-> m, flag |-> prev]
    ELSE
    LET curr == LookupRune(flags[i])
        num == LookupRune(NoShort)
    IN IF curr = NilFlag
       THEN IF IsNumber(argType) /\ param = << >> /\ num # NilFlag
            THEN [m |-> SetAndReport(m, num, flags, pos, "failed to set (-NUM idiom)"),
                  flag |-> NilFlag]
            ELSE IF prev = NilFlag
            THEN [m |-> [m EXCEPT !.halt = "nilderef"], flag |-> NilFlag]
            ELSE [m |-> SetAndReport(m, prev, ClusterOptarg(flags, param, i), pos,
                                     "failed to set"),
                  flag |-> NilFlag]
       ELSE disambiguateCluster(ClusterNilSet(m, prev, pos), flags, param, argType,
                                pos, i + 1, curr) : m \in {m0}})

\* stopParsing that never discards the first element
stopParsingKeepFirst(m0, shift) ==
    The({[m EXCEPT !.Out = @ \o m.In, !.In = << >>] : m \in {m0}})

\* FlagSet.stopParsing
stopParsing(m0, shift) ==
    The({[m EXCEPT !.Out = @ \o (IF shift /\ m.In # << >> THEN Tail(m.In) ELSE m.In),
                   !.In = << >>] : m \in {m0}})

\* "return nil" from parse
Return(m0) ==
    The({IF m.halt = "run" THEN [m EXCEPT !.ret = TRUE] ELSE m : m \in {m0}})

\* consuming the next argument without counting it
ShiftNoCount(m0) ==
    The({IF m.halt = "run" THEN [m EXCEPT !.In = Tail(@)] ELSE m : m \in {m0}})

\* "_, _ = fs.InputArgs.Shift(); i++": the next argument is consumed
Shift(m0) ==
    The({IF m.halt = "run" THEN [m EXCEPT !.In = Tail(@), !.i = @ + 1] ELSE m :
         m \in {m0}})

\* the attached parameter without regard to the kind of flag
AttachedValueAnyFlag(argType, param) ==
    IF PosixEquals THEN <<"=">> \o param ELSE param

\* the value parse passes to Set for an "="-attached parameter
AttachedValue(argType, param) ==
    IF (IsShortFlag(argType) \/ IsCluster(argType)) /\ PosixEquals
    THEN <<"=">> \o param
    ELSE param

\* parse, the next argument is "--": under GNU rules stop; else the flag
\* takes it as its argument if it accepts it
PeekDoubleHyphen(m, flag) ==
    IF ~PosixDoubleHyphen THEN Return(stopParsing(m, TRUE))
    ELSE IF FlagTest(m, flag, <<"-", "-">>, m.i) THEN Return(stopParsing(m, TRUE))
    ELSE Shift(SetAndReport(m, flag, <<"-", "-">>, m.i,
                            "failed to set flag with -- after Test"))

\* the peek that leaves the argument in the input also when Set accepted it
PeekParamNoShift(m, flag, param) == FlagSet(m, flag, param, m.i).m

\* the peek that consumes the argument whether or not Set accepted it
PeekParamAlwaysShift(m, flag, param) == Shift(FlagSet(m, flag, param, m.i).m)

\* parse, the next argument is no flag and the current flag is not boolean:
\* try the argument as the parameter, consume it if that worked
PeekParam(m, flag, param) ==
    The({IF r.err THEN r.m ELSE Shift(r.m) : r \in {FlagSet(m, flag, param, m.i)}})

\* parse, from "if argType.HasParam()" on: a resolved flag, the input after
\* the flag's token has been shifted
SetResolved(m, flag, p) ==
    IF m.halt # "run" THEN m
    ELSE IF HasParam(p.argType)
    THEN SetAndReport(m, flag, AttachedValue(p.argType, p.param), m.i,
                      "failed to set flag with attached parameter")
    ELSE IF m.In = << >>
    THEN Return(SetAndReport(m, flag, NilArg, m.i, "failed to set flag at EOL"))
    ELSE
    LET np == parseSingleArg(Head(m.In))
    IN IF ~IsFlag(np.argType) /\ IsDoubleHyphen(np.argType)
       THEN PeekDoubleHyphen(m, flag)
       ELSE IF ~IsFlag(np.argType) /\ ~IsBool(flag)
       THEN PeekParam(m, flag, np.param)
       ELSE SetAndReport(m, flag, NilArg, m.i, "failed to set flag with no parameter")

\* the operand branch without the first-operand-stops rule
OperandNeverStops(m, param) == [m EXCEPT !.Out = Append(@, param)]

\* parse, the argument is no flag: it goes to the output, and under the POSIX
\* rule so does all remaining input
Operand(m, param) ==
    IF PosixOperandStop THEN Return(stopParsing([m EXCEPT !.Out = Append(@, param)], FALSE))
    ELSE [m EXCEPT !.Out = Append(@, param)]

\* One iteration of the loop of FlagSet.parse, the input not empty
LoopBody(m0) ==
    The({
    IF ~IsFlag(p.argType) THEN Operand(m, p.param)
    ELSE IF IsDoubleHyphen(p.argType) THEN Return(stopParsing(m, FALSE))
    ELSE IF IsCluster(p.argType)
    THEN The({IF r.flag = NilFlag THEN r.m ELSE SetResolved(r.m, r.flag, p) :
              r \in {disambiguateCluster(m, p.flags, p.param, p.argType, m.i, 1,
                                         NilFlag)}})
    ELSE
    LET flag == LookupStr(p.flags)
        num == LookupRune(NoShort)
    IN IF flag # NilFlag THEN SetResolved(m, flag, p)
       ELSE IF ~IsNumber(p.argType) THEN Failf(m, "flag not defined (NaN)")
       ELSE IF num = NilFlag THEN Failf(m, "flag -NUM not defined")
       ELSE SetAndReport(m, num, p.flags, m.i, "failed to set -NUM flag") :
    m \in {[m0 EXCEPT !.In = Tail(@), !.i = @ + 1]}, p \in {parseSingleArg(Head(m0.In))}})

(***************************************************************************)
(* Initial states and actions                                              *)
(***************************************************************************)
NoIter == [arg |-> << >>, In |-> << >>, Out |-> << >>, nset |-> 0, nerr |-> 0,
           Count |-> << >>, Mutex |-> EmptyNodes]

\* the failure policies a registry is created with: the default (print and
\* exit), WithContinueOnFail, WithPanicOnFail
FailPolicies == {{}, {"Continue"}, {"Panic"}}

\* DefaultFailExitCode
DefaultFailExitCode == 2

\* the bits of FailOption, and every combination of WithContinueOnFail,
\* WithPanicOnFail and WithSilentFail
FailBits == {"Continue", "Panic", "Silent"}
AllFailPolicies == SUBSET FailBits

\* the exit codes a program leaves or assigns to fs.FailExitCode
ExitCodes == {DefaultFailExitCode, DefaultFailExitCode + 1}

\* the short runes and long names the registry specification registers
RegShorts == {NoShort, "a", "7"}
RegLongs == {NoLong, <<"a", "b">>, <<"a", "c">>, <<"a", "b", "c">>,
             <<"a", "b", "d">>, <<"b", "a">>}

\* the flags the parse specifications declare, in declaration order
DeclFlags == <<NewFlag("a", <<"a", "n", "t">>, "bool", {}),
               NewFlag("b", <<"b", "a", "t">>, "bool", {}),
               NewFlag("s", <<"s", "n", "a", "k", "e">>, "string", {}),
               NewFlag("c", <<"c", "a", "t">>, "bool", {"pet"}),
               NewFlag("d", <<"d", "o", "g">>, "bool", {"pet"}),
               NewFlag("n", <<"n", "u", "m">>, "uint", {})>>

\* the flags the -NUM specification declares: a reserved -NUM flag bound to
\* an unsigned target, and a long-only flag whose name begins with a digit
DeclNumFlags == <<NewFlag("a", <<"a", "n", "t">>, "bool", {}),
                  NewFlag(NoShort, NoLong, "uint", {}),
                  NewFlag(NoShort, <<"7", "u", "p">>, "bool", {})>>

\* the flags the position specification declares: k has a callback
DeclPosFlags == <<NewFlag("a", <<"a", "n", "t">>, "bool", {}),
                  NewFlag("s", <<"s", "n", "a", "k", "e">>, "string", {}),
                  [NewFlag("k", <<"k", "e", "y">>, "string", {}) EXCEPT !.Callback = TRUE]>>

\* the registry after Var of the first n flags of a declaration list
RECURSIVE DeclaredOf(_, _)
DeclaredOf(decl, n) ==
    IF n = 0 THEN EmptyRegistry
    ELSE CHOOSE R \in {AddFlag(prev, n, decl[n].Short, decl[n].Long).R :
                          prev \in {DeclaredOf(decl, n - 1)}} : TRUE

\* the registry after Var of the first n declared flags
Declared(n) == DeclaredOf(DeclFlags, n)

MutexNames(tab) == UNION {tab[f].Mutexes : f \in DOMAIN tab}

\* all argument lists of at most n tokens
ArgLists(Toks, n) == UNION {[1..k -> Toks] : k \in 0..n}

InitCommon ==
    /\ addErrs = 0
    /\ InputArgs = << >>
    /\ OutputArgs = << >>
    /\ pc = "idle"
    /\ argPos = 0
    /\ setLog = << >>
    /\ errOut = << >>
    /\ iter = NoIter
    /\ args = << >>
    /\ parses = 0
    /\ cbLog = << >>
    /\ exitCode = << >>
    /\ failfs = 0

\* a new, empty registry with the default settings
InitReg ==
    /\ InitCommon
    /\ flagTab = << >>
    /\ optLog = << >>
    /\ LongTrie = NewTrie
    /\ ShortDict = EmptyNodes
    /\ HasHyphenNumIdiom = FALSE
    /\ HasNumberShorts = FALSE
    /\ FlagList = << >>
    /\ OnFail = {}
    /\ FailExitCode = DefaultFailExitCode
    /\ Mutex = EmptyNodes
    /\ Count = << >>
    /\ Value = << >>
    /\ PosixEquals = TRUE
    /\ PosixDoubleHyphen = TRUE
    /\ PosixOperandStop = TRUE

\* a registry with the declared flags, the failure policy, the exit code and
\* the toggles as the calling program has set them
InitParseWith(decl, policies, codes) ==
    /\ InitCommon
    /\ flagTab = decl
    /\ optLog = [f \in DOMAIN decl |-> [kind |-> decl[f].Kind, opts |-> << >>]]
    /\ \E R \in {DeclaredOf(decl, Len(decl))} :
          /\ LongTrie = R.LongTrie
          /\ ShortDict = R.ShortDict
          /\ HasHyphenNumIdiom = R.HasHyphenNumIdiom
          /\ HasNumberShorts = R.HasNumberShorts
          /\ FlagList = R.FlagList
    /\ OnFail \in policies
    /\ FailExitCode \in codes
    /\ Mutex = [grp \in MutexNames(decl) |-> NilFlag]
    /\ Count = [f \in DOMAIN decl |-> 0]
    /\ Value = [f \in DOMAIN decl |-> ZeroValue(decl[f].Kind)]
    /\ PosixEquals \in BOOLEAN
    /\ PosixDoubleHyphen \in BOOLEAN
    /\ PosixOperandStop \in BOOLEAN

\* the same for a registry made by NewFlagSet with at most one of
\* WithContinueOnFail and WithPanicOnFail
InitParseOf(decl) == InitParseWith(decl, FailPolicies, {DefaultFailExitCode})

InitParse == InitParseOf(DeclFlags)

\* the same with the flags of the position specification
InitPos == InitParseOf(DeclPosFlags)

\* the declared flags in a registry with any combination of failure options
\* and either exit code
InitFail == InitParseWith(DeclFlags, AllFailPolicies, ExitCodes)

\* the same with the flags of the -NUM specification
InitNum == InitParseOf(DeclNumFlags)

\* fs.AddFlag(NewFlag(&target, short, long, usage))
AddFlagCall ==
    /\ pc = "idle"
    /\ Len(flagTab) < MaxFlags
    /\ \E short \in RegShorts, long \in RegLongs :
        LET id == Len(flagTab) + 1
            kind == IF short = NoShort /\ long = NoLong THEN "uint" ELSE "bool"
            r == AddFlag(Registry, id, short, long)
        IN /\ flagTab' = Append(flagTab, NewFlag(short, long, kind, {}))
           /\ Count' = Append(Count, 0)
           /\ Value' = Append(Value, ZeroValue(kind))
           /\ LongTrie' = r.R.LongTrie
           /\ ShortDict' = r.R.ShortDict
           /\ HasHyphenNumIdiom' = r.R.HasHyphenNumIdiom
           /\ HasNumberShorts' = r.R.HasNumberShorts
           /\ FlagList' = r.R.FlagList
           /\ addErrs' = addErrs + (IF r.err THEN 1 ELSE 0)
           /\ optLog' = Append(optLog, [kind |-> kind, opts |-> << >>])
    /\ UNCHANGED <<InputArgs, OutputArgs, Mutex, pc, argPos, setLog, errOut, iter,
                   args, parses, cbLog, exitCode, failfs, cfgVars>>

\* a Parse that starts a run with all mutex groups unclaimed
ParseEnterUnclaimed(arguments) ==
    /\ InputArgs' = arguments
    /\ args' = arguments
    /\ pc' = "scanning"
    /\ argPos' = 0
    /\ setLog' = << >>
    /\ errOut' = << >>
    /\ iter' = NoIter
    /\ parses' = parses + 1
    /\ cbLog' = << >>
    /\ failfs' = 0
    /\ Mutex' = [grp \in DOMAIN Mutex |-> NilFlag]
    /\ UNCHANGED <<regVars, cfgVars, OutputArgs, Count, Value, exitCode>>

\* a Parse that starts a run with an empty output queue
ParseEnterClearsOutput(arguments) ==
    /\ InputArgs' = arguments
    /\ args' = arguments
    /\ pc' = "scanning"
    /\ argPos' = 0
    /\ setLog' = << >>
    /\ errOut' = << >>
    /\ iter' = NoIter
    /\ parses' = parses + 1
    /\ cbLog' = << >>
    /\ failfs' = 0
    /\ OutputArgs' = << >>
    /\ UNCHANGED <<regVars, cfgVars, Mutex, Count, Value, exitCode>>

\* a Parse that starts a run with an empty long-name trie
ParseEnterNewTrie(arguments) ==
    /\ InputArgs' = arguments
    /\ args' = arguments
    /\ pc' = "scanning"
    /\ argPos' = 0
    /\ setLog' = << >>
    /\ errOut' = << >>
    /\ iter' = NoIter
    /\ parses' = parses + 1
    /\ cbLog' = << >>
    /\ failfs' = 0
    /\ LongTrie' = NewTrie
    /\ UNCHANGED <<flagTab, ShortDict, HasHyphenNumIdiom, HasNumberShorts, FlagList,
                   addErrs, optLog, cfgVars, OutputArgs, Mutex, Count, Value, exitCode>>

\* fs.Parse(arguments), up to the first iteration of the loop: the input
\* queue is re-initialised, nothing else is
ParseEnter(arguments) ==
    /\ InputArgs' = arguments
    /\ args' = arguments
    /\ pc' = "scanning"
    /\ argPos' = 0
    /\ setLog' = << >>
    /\ errOut' = << >>
    /\ iter' = NoIter
    /\ parses' = parses + 1
    /\ cbLog' = << >>
    /\ failfs' = 0
    /\ UNCHANGED <<regVars, cfgVars, OutputArgs, Mutex, Count, Value, exitCode>>

\* Parse on a registry that has not parsed yet
ParseFresh(Toks, n) ==
    /\ pc = "idle"
    /\ \E arguments \in ArgLists(Toks, n) : ParseEnter(arguments)

\* Parse on a registry in any state between parses
ParseAgain(Toks, n) ==
    /\ pc \in {"idle", "done"}
    /\ parses < MaxParses
    /\ \E arguments \in ArgLists(Toks, n) : ParseEnter(arguments)

\* one iteration of the loop of FlagSet.parse
ParseIter ==
    /\ pc = "scanning"
    /\ InputArgs # << >>
    /\ \E m \in {LoopBody(Machine)} :
          /\ Count' = m.Count
          /\ Value' = m.Value
          /\ Mutex' = m.Mutex
          /\ InputArgs' = m.In
          /\ OutputArgs' = m.Out
          /\ setLog' = m.setLog
          /\ errOut' = m.errOut
          /\ cbLog' = m.cbLog
          /\ exitCode' = m.code
          /\ failfs' = m.failfs
          /\ argPos' = m.i
          /\ pc' = IF m.halt # "run" THEN m.halt
                   ELSE IF m.ret THEN "done" ELSE "scanning"
    /\ iter' = [arg |-> Head(InputArgs), In |-> InputArgs, Out |-> OutputArgs,
                nset |-> Len(setLog), nerr |-> Len(errOut), Count |-> Count,
                Mutex |-> Mutex]
    /\ UNCHANGED <<regVars, cfgVars, args, parses>>

\* the loop of FlagSet.parse ends: Shift reports the empty queue
ParseReturn ==
    /\ pc = "scanning"
    /\ InputArgs = << >>
    /\ pc' = "done"
    /\ UNCHANGED <<regVars, cfgVars, InputArgs, OutputArgs, Mutex, Count, Value,
                   argPos, setLog, errOut, iter, args, parses, cbLog, exitCode,
                   failfs>>

\* a Reset that leaves the mutex groups as they are
ResetKeepsMutex ==
    /\ pc \in {"idle", "done"}
    /\ InputArgs' = << >>
    /\ OutputArgs' = << >>
    /\ Count' = [f \in DOMAIN Count |-> IF \E k \in DOMAIN FlagList : FlagList[k] = f
                                        THEN 0 ELSE Count[f]]
    /\ UNCHANGED <<regVars, cfgVars, Mutex, Value, pc, argPos, setLog, errOut, iter,
                   args, parses, cbLog, exitCode, failfs>>

\* FlagSet.Reset
Reset ==
    /\ pc \in {"idle", "done"}
    /\ InputArgs' = << >>
    /\ OutputArgs' = << >>
    /\ Mutex' = [grp \in DOMAIN Mutex |-> NilFlag]
    /\ Count' = [f \in DOMAIN Count |-> IF \E k \in DOMAIN FlagList : FlagList[k] = f
                                        THEN 0 ELSE Count[f]]
    /\ UNCHANGED <<regVars, cfgVars, Value, pc, argPos, setLog, errOut, iter, args,
                   parses, cbLog, exitCode, failfs>>

\* a program that has created no flag: the default FlagSet with a failure
\* policy, as TestBasicSet has it
InitSet ==
    /\ InitCommon
    /\ flagTab = << >>
    /\ optLog = << >>
    /\ LongTrie = NewTrie
    /\ ShortDict = EmptyNodes
    /\ HasHyphenNumIdiom = FALSE
    /\ HasNumberShorts = FALSE
    /\ FlagList = << >>
    /\ OnFail \in FailPolicies
    /\ FailExitCode = DefaultFailExitCode
    /\ Mutex = EmptyNodes
    /\ Count = << >>
    /\ Value = << >>
    /\ PosixEquals = TRUE
    /\ PosixDoubleHyphen = TRUE
    /\ PosixOperandStop = TRUE

\* the kinds of target and the option lists given to NewFlag
Kinds == {"bool", "uint", "string"}
OptLists == UNION {[1..k -> FlagOptions] : k \in 0..MaxOpts}

\* the values given to Flag.Set: nil and strings
SetValues == {NilArg, <<"t", "r", "u", "e">>, <<"1", "5">>, <<"7">>}

\* f := NewFlag(&target, 0, "foo", usage, opts...): the flag is created, or
\* an option panics
NewFlagCall ==
    /\ pc = "idle"
    /\ flagTab = << >>
    /\ \E kind \in Kinds, opts \in OptLists :
          \E b \in {NewFlagWith(NoShort, <<"f", "o", "o">>, kind, opts)} :
             /\ optLog' = Append(optLog, [kind |-> kind, opts |-> opts])
             /\ IF b.panicked
                THEN /\ pc' = "panicked"
                     /\ UNCHANGED <<flagTab, Count, Value>>
                ELSE /\ pc' = pc
                     /\ flagTab' = Append(flagTab, b.cfg)
                     /\ Count' = Append(Count, 0)
                     /\ Value' = Append(Value, b.value)
    /\ UNCHANGED <<LongTrie, ShortDict, HasHyphenNumIdiom, HasNumberShorts, FlagList,
                   addErrs, InputArgs, OutputArgs, Mutex, argPos, setLog, errOut, iter,
                   args, parses, cbLog, exitCode, failfs, cfgVars>>

\* err := f.Set(value, pos) called by the program; argPos counts the calls
\* and setLog, errOut and cbLog hold what this call did
SetCall ==
    /\ pc = "idle"
    /\ argPos < MaxSetCalls
    /\ \E f \in DOMAIN flagTab, value \in SetValues :
          \E r \in {FlagSet([Machine EXCEPT !.setLog = << >>, !.errOut = << >>,
                                            !.cbLog = << >>, !.failfs = 0],
                             f, value, argPos + 1)} :
             /\ Count' = r.m.Count
             /\ Value' = r.m.Value
             /\ Mutex' = r.m.Mutex
             /\ setLog' = r.m.setLog
             /\ errOut' = r.m.errOut
             /\ cbLog' = r.m.cbLog
             /\ exitCode' = r.m.code
             /\ failfs' = r.m.failfs
             /\ pc' = IF r.m.halt # "run" THEN r.m.halt ELSE pc
    /\ argPos' = argPos + 1
    /\ UNCHANGED <<regVars, cfgVars, InputArgs, OutputArgs, iter, args, parses>>

\* the short runes and long names the alias specification registers
AliasShorts == {NoShort, "a", "b"}
AliasLongs == {<<"a", "b">>, <<"a", "c">>, <<"b", "a">>}

\* a short rune or long name, as one identity
Identity(short, long) == [Short |-> short, Long |-> long]

\* Flag.NewAlias(short, long): the alias object of flag f
NewAlias(f, short, long) ==
    [NewFlag(short, long, flagTab[f].Kind, {}) EXCEPT !.AliasFor = f]

\* fs.Var(&target, short, long, usage): a failed AddFlag is a log.Panicf
VarCall ==
    /\ pc = "idle"
    /\ Len(flagTab) < MaxFlags
    /\ \E short \in AliasShorts, long \in AliasLongs :
          \E r \in {AddFlag(Registry, Len(flagTab) + 1, short, long)} :
             /\ flagTab' = Append(flagTab, NewFlag(short, long, "bool", {}))
             /\ optLog' = Append(optLog, [kind |-> "bool", opts |-> << >>])
             /\ Count' = Append(Count, 0)
             /\ Value' = Append(Value, FALSE)
             /\ LongTrie' = r.R.LongTrie
             /\ ShortDict' = r.R.ShortDict
             /\ HasHyphenNumIdiom' = r.R.HasHyphenNumIdiom
             /\ HasNumberShorts' = r.R.HasNumberShorts
             /\ FlagList' = r.R.FlagList
             /\ addErrs' = addErrs + (IF r.err THEN 1 ELSE 0)
             /\ args' = <<Identity(short, long)>>
             /\ pc' = IF r.err THEN "panicked" ELSE pc
    /\ UNCHANGED <<InputArgs, OutputArgs, Mutex, argPos, setLog, errOut, iter, parses,
                   cbLog, exitCode, failfs, cfgVars>>

\* fs.Equ(short, long, equiv, value): an unknown target is a panic, a failed
\* AddFlag of the alias is reported with Failf
EquCall ==
    /\ pc = "idle"
    /\ Len(flagTab) < MaxFlags
    /\ \E short \in AliasShorts, long \in AliasLongs, equiv \in AliasLongs :
          \E f \in {LookupLong(Registry, equiv)} :
             /\ args' = <<Identity(short, long)>>
             /\ IF f = NilFlag
                THEN /\ pc' = "panicked"
                     /\ UNCHANGED <<regVars, Count, Value, errOut, exitCode, failfs>>
                ELSE \E r \in {AddFlag(Registry, Len(flagTab) + 1, short, long)} :
                     \E m \in {IF r.err THEN Failf(Machine, "Error adding alias")
                                ELSE Machine} :
                        /\ flagTab' = Append(flagTab, NewAlias(f, short, long))
                        /\ optLog' = Append(optLog, [kind |-> flagTab[f].Kind,
                                                     opts |-> << >>])
                        /\ Count' = Append(Count, 0)
                        /\ Value' = Append(Value, FALSE)
                        /\ LongTrie' = r.R.LongTrie
                        /\ ShortDict' = r.R.ShortDict
                        /\ HasHyphenNumIdiom' = r.R.HasHyphenNumIdiom
                        /\ HasNumberShorts' = r.R.HasNumberShorts
                        /\ FlagList' = r.R.FlagList
                        /\ addErrs' = addErrs + (IF r.err THEN 1 ELSE 0)
                        /\ errOut' = m.errOut
                        /\ exitCode' = m.code
                        /\ failfs' = m.failfs
                        /\ pc' = IF m.halt # "run" THEN m.halt ELSE pc
    /\ UNCHANGED <<InputArgs, OutputArgs, Mutex, argPos, setLog, iter, parses, cbLog,
                   cfgVars>>

\* fs.Var(&target, short, long, usage, WithAlias(aShort, aLong, false)).  The
\* option runs inside NewFlag, before the flag itself is added: an alias
\* identity that a lookup finds is reported and then a panic; a failed
\* AddFlag of the alias is only reported.  Then Var adds the flag.
VarWithAliasCall ==
    /\ pc = "idle"
    /\ Len(flagTab) + 1 < MaxFlags
    /\ \E short \in AliasShorts, long \in AliasLongs,
          aShort \in AliasShorts, aLong \in AliasLongs :
          LET alias == Len(flagTab) + 1
              flag == Len(flagTab) + 2
              found == \/ LookupLong(Registry, aLong) # NilFlag
                       \/ LookupShort(Registry, aShort) # NilFlag
          IN /\ args' = <<Identity(aShort, aLong), Identity(short, long)>>
             /\ IF found
                THEN \E m \in {Failf(Machine, "flag already exists for alias")} :
                        /\ errOut' = m.errOut
                        /\ exitCode' = m.code
                        /\ failfs' = m.failfs
                        /\ pc' = IF m.halt = "exited" THEN "exited" ELSE "panicked"
                        /\ UNCHANGED <<regVars, Count, Value>>
                ELSE \E ra \in {AddFlag(Registry, alias, aShort, aLong)} :
                     \E m \in {IF ra.err THEN Failf(Machine, "Error adding alias")
                                ELSE Machine} :
                     \E rf \in {IF m.halt # "run" THEN ra
                                 ELSE AddFlag(ra.R, flag, short, long)} :
                        /\ flagTab' = flagTab \o
                              <<[NewFlag(aShort, aLong, "bool", {}) EXCEPT
                                    !.AliasFor = flag],
                                NewFlag(short, long, "bool", {})>>
                        /\ optLog' = optLog \o
                              <<[kind |-> "bool", opts |-> << >>],
                                [kind |-> "bool", opts |-> <<"WithAlias">>]>>
                        /\ Count' = Count \o <<0, 0>>
                        /\ Value' = Value \o <<FALSE, FALSE>>
                        /\ LongTrie' = rf.R.LongTrie
                        /\ ShortDict' = rf.R.ShortDict
                        /\ HasHyphenNumIdiom' = rf.R.HasHyphenNumIdiom
                        /\ HasNumberShorts' = rf.R.HasNumberShorts
                        /\ FlagList' = rf.R.FlagList
                        /\ addErrs' = addErrs + (IF ra.err THEN 1 ELSE 0) +
                                          (IF m.halt = "run" /\ rf.err THEN 1 ELSE 0)
                        /\ errOut' = m.errOut
                        /\ exitCode' = m.code
                        /\ failfs' = m.failfs
                        /\ pc' = IF m.halt # "run" THEN m.halt
                                 ELSE IF rf.err THEN "panicked" ELSE pc
    /\ UNCHANGED <<InputArgs, OutputArgs, Mutex, argPos, setLog, iter, parses, cbLog,
                   cfgVars>>

(***************************************************************************)
(* Tokens                                                                  *)
(***************************************************************************)
TokDD == <<"-", "-">>
TokOperand == <<"p">>
TokA == <<"-", "a">>
TokS == <<"-", "s">>
TokC == <<"-", "c">>
TokD == <<"-", "d">>
TokAS == <<"-", "a", "s">>
TokSA == <<"-", "s", "a">>
TokAB == <<"-", "a", "b">>
TokCD == <<"-", "c", "d">>
TokAN == <<"-", "a", "n">>
TokXA == <<"-", "x", "a">>
TokSXEq == <<"-", "s", "x", "=">>
TokASXEqP == <<"-", "a", "s", "x", "=", "p">>
TokASEqP == <<"-", "a", "s", "=", "p">>
TokSEqP == <<"-", "s", "=", "p">>
TokSnakeEqP == <<"-", "-", "s", "n", "a", "k", "e", "=", "p">>

Tok3 == <<"-", "3">>
Tok7 == <<"-", "7">>
Tok37 == <<"-", "3", "7">>
Tok73 == <<"-", "7", "3">>
TokA37 == <<"-", "a", "3", "7">>
Tok3Eq5 == <<"-", "3", "=", "5">>
Tok37Eq == <<"-", "3", "7", "=">>
\* "-" and the digits of 2^64
TokTooBig == <<"-">> \o SubSeq(MaxUint64, 1, Len(MaxUint64) - 1) \o <<"6">>

StopTokens == {TokDD, TokOperand, TokA, TokS, TokAS}
MutexTokens == {TokOperand, TokC, TokD, TokCD}
ClusterTokens == {TokOperand, TokA, TokAS, TokSA, TokAB, TokAN, TokXA, TokSXEq,
                  TokASXEqP, TokASEqP, TokSEqP, TokSnakeEqP}
NumTokens == {TokOperand, TokA, Tok3, Tok7, Tok37, Tok73, TokTooBig, TokA37, Tok3Eq5,
              Tok37Eq}
TokK == <<"-", "k">>
PosTokens == {TokDD, TokOperand, TokA, TokS, TokK}
TokX == <<"-", "x">>
TokN == <<"-", "n">>
FailTokens == {TokOperand, TokA, TokX, TokN}
\* the long names of the alias specification as options
ChainTokens == {<<"-", "-">> \o long : long \in AliasLongs}

(***************************************************************************)
(* Specifications                                                          *)
(***************************************************************************)
\* building a registry
NextReg == AddFlagCall
SpecReg == InitReg /\ [][NextReg]_vars

\* one Parse call: operands, "--" and where parsing halts
NextStop == ParseFresh(StopTokens, MaxArgsStop) \/ ParseIter \/ ParseReturn
SpecStop == InitParse /\ [][NextStop]_vars

\* one Parse call: clusters and attached parameters
NextCluster == ParseFresh(ClusterTokens, MaxArgsCluster) \/ ParseIter \/ ParseReturn
SpecCluster == InitParse /\ [][NextCluster]_vars

\* Parse calls and Resets on one registry: mutex groups
NextMutex == ParseAgain(MutexTokens, MaxArgsMutex) \/ ParseIter \/ ParseReturn \/ Reset
SpecMutex == InitParse /\ [][NextMutex]_vars

\* one flag made by NewFlag with options, and Set calls on it
NextSet == NewFlagCall \/ SetCall
SpecSet == InitSet /\ [][NextSet]_vars

\* registration through Var, Var with WithAlias, and Equ
NextAlias == VarCall \/ VarWithAliasCall \/ EquCall
SpecAlias == InitSet /\ [][NextAlias]_vars

\* one Parse call on a registry with a -NUM flag
NextNum == ParseFresh(NumTokens, MaxArgsNum) \/ ParseIter \/ ParseReturn
SpecNum == InitNum /\ [][NextNum]_vars

\* every string of at most MaxTokLen runes over a hyphen, the equals sign, a
\* letter and a digit
ClassifyRunes == {"-", "=", "a", "3"}
ClassifyTokens == UNION {[1..k -> ClassifyRunes] : k \in 0..MaxTokLen}

\* Parse of one argument, which the loop classifies with parseSingleArg
NextClassify == ParseFresh(ClassifyTokens, 1) \/ ParseIter \/ ParseReturn
SpecClassify == InitNum /\ [][NextClassify]_vars

\* one Parse call: the positions given to Set and to callbacks
NextPos == ParseFresh(PosTokens, MaxArgsPos) \/ ParseIter \/ ParseReturn
SpecPos == InitPos /\ [][NextPos]_vars

\* one Parse call, under every failure policy
NextFail == ParseFresh(FailTokens, MaxArgsFail) \/ ParseIter \/ ParseReturn
SpecFail == InitFail /\ [][NextFail]_vars

\* flags and their equivalents registered through Var and Equ, then one Parse
NextChain == VarCall \/ EquCall \/ ParseFresh(ChainTokens, MaxArgsChain) \/ ParseIter
             \/ ParseReturn
SpecChain == InitSet /\ [][NextChain]_vars

(***************************************************************************)
(* Properties of the registry                                              *)
(***************************************************************************)
\* the long names of the flags AddFlag accepted
RegisteredLongs ==
    {flagTab[FlagList[k]].Long : k \in DOMAIN FlagList} \ {NoLong}

\* P is a prefix of the registered long name L and of no other one
UniquePrefixOf(P, L) ==
    /\ IsPrefix(P, L)
    /\ \A L2 \in RegisteredLongs \ {L} : ~IsPrefix(P, L2)

\* P is a prefix of two registered long names and shorter than both
SharedPrefix(P) ==
    \E L1, L2 \in RegisteredLongs :
        /\ L1 # L2
        /\ IsPrefix(P, L1) /\ Len(P) < Len(L1)
        /\ IsPrefix(P, L2) /\ Len(P) < Len(L2)

\* all prefixes of registered long names
RegisteredPrefixes == UNION {Prefixes(L) : L \in RegisteredLongs}

\* P is one rune that is registered as a short letter
IsShortQuery(P) == Len(P) = 1 /\ LookupShort(Registry, P[1]) # NilFlag

\* P is the long name of a flag object that was passed to AddFlag
IsLongName(P) == \E f \in DOMAIN flagTab : flagTab[f].Long = P

\* C1 as stated: in a registry built by successful registrations, every
\* prefix P of a registered long name L that is a prefix of no other
\* registered long name looks up the same flag as L.
C1_AsStated ==
    addErrs = 0 =>
        \A L \in RegisteredLongs : \A P \in Prefixes(L) :
            UniquePrefixOf(P, L) => LookupLong(Registry, P) = LookupLong(Registry, L)

\* C1 amended: in a registry built by successful registrations, every prefix
\* P of a registered long name L that is a prefix of no other registered long
\* name looks up the same flag as L, except when P is a single rune that is
\* registered as a short letter: then Lookup(P) is the flag of that short.
C1_UniquePrefix ==
    addErrs = 0 =>
        \A L \in RegisteredLongs : \A P \in Prefixes(L) :
            UniquePrefixOf(P, L) =>
                IF IsShortQuery(P)
                THEN LookupLong(Registry, P) = LookupShort(Registry, P[1])
                ELSE LookupLong(Registry, P) = LookupLong(Registry, L)

\* C1 witness: two long names are registered and a proper prefix of two or
\* more runes that is unique to one of them resolves to its flag
C1_Witness ==
    /\ addErrs = 0
    /\ Cardinality(RegisteredLongs) >= 2
    /\ \E L \in RegisteredLongs : \E P \in Prefixes(L) :
        /\ Len(P) >= 2 /\ P # L /\ UniquePrefixOf(P, L)
        /\ LookupLong(Registry, P) # NilFlag
        /\ flagTab[LookupLong(Registry, P)].Long = L

IterDone == iter # NoIter /\ pc \in {"scanning", "done"}

\* the classification of the token the last iteration took from the input
IterArg == parseSingleArg(iter.arg)

\* every letter of a cluster is a registered short flag
ClusterResolves(flags) == \A k \in 1..Len(flags) : LookupRune(flags[k]) # NilFlag

\* the flag a token leaves to be set by the loop: a short or long flag that
\* resolves, or the last letter of a cluster whose letters all resolve
TokenFlag(tok) ==
    LET p == parseSingleArg(tok)
    IN IF ~IsFlag(p.argType) \/ p.flags = << >> THEN NilFlag
       ELSE IF IsCluster(p.argType)
       THEN IF ClusterResolves(p.flags) THEN LookupRune(p.flags[Len(p.flags)])
            ELSE NilFlag
       ELSE LookupStr(p.flags)

\* the Set calls of the last iteration
IterSets == SubSeq(setLog, iter.nset + 1, Len(setLog))

\* the last iteration found a flag without attached parameter and "--" next
FlagThenDD ==
    /\ IterDone
    /\ TokenFlag(iter.arg) # NilFlag
    /\ ~HasParam(IterArg.argType)
    /\ Len(iter.In) >= 2
    /\ iter.In[2] = TokDD

\* "--" was handed to a flag as its argument in the last iteration
DDTaken == \E k \in 1..Len(IterSets) : IterSets[k].value = TokDD

\* s ends with t
IsSuffix(t, s) ==
    Len(t) <= Len(s) /\ SubSeq(s, Len(s) - Len(t) + 1, Len(s)) = t

\* C3 as stated: a "--" that no flag took as its argument halts parsing
\* whatever the first-operand rule is.  When Parse has returned, every token
\* after such a "--" is in the output unchanged and in order, and no Set call
\* was made for a token after it.
C3_AsStated ==
    (pc = "done" /\ \A j \in 1..Len(setLog) : setLog[j].value # TokDD) =>
        \A k \in 1..Len(args) :
            args[k] = TokDD =>
                /\ IsSuffix(SubSeq(args, k + 1, Len(args)), OutputArgs)
                /\ \A j \in 1..Len(setLog) : setLog[j].pos <= k

\* whether the flag the last iteration resolved accepted "--": it is a free
\* string flag that was not set before
AcceptsDD ==
    LET f == TokenFlag(iter.arg)
    IN /\ flagTab[f].Kind = "string"
       /\ iter.Count[f] = 0 \/ flagTab[f].Repeats

\* C4: a flag without attached parameter is followed by "--".  Under the GNU
\* rule parsing halts and exactly the tokens after the "--" are appended to
\* the output; under the POSIX rule a flag that accepts "--" is set to "--",
\* the "--" is not in the output and the loop goes on with the token after it.
C4_FlagThenDoubleHyphen ==
    FlagThenDD =>
        /\ ~PosixDoubleHyphen =>
              /\ pc = "done"
              /\ InputArgs = << >>
              /\ OutputArgs = iter.Out \o SubSeq(iter.In, 3, Len(iter.In))
              /\ ~DDTaken
        /\ (PosixDoubleHyphen /\ AcceptsDD) =>
              /\ InputArgs = SubSeq(iter.In, 3, Len(iter.In))
              /\ InputArgs # << >> => pc = "scanning"
              /\ OutputArgs = iter.Out
              /\ setLog[Len(setLog)] = [flag |-> TokenFlag(iter.arg), value |-> TokDD,
                                        pos |-> argPos - 1, err |-> FALSE]
              /\ Value[TokenFlag(iter.arg)] = TokDD

\* under the POSIX rule the last flag of a cluster took "--" as its argument
\* and a token is left to scan
C4_Witness ==
    /\ FlagThenDD
    /\ PosixDoubleHyphen
    /\ AcceptsDD
    /\ iter.arg = TokAS
    /\ Value[TokenFlag(iter.arg)] = TokDD
    /\ InputArgs # << >>
    /\ pc = "scanning"

\* the last iteration took an operand from the input at the top of the loop
OperandMet == IterDone /\ ~IsFlag(IterArg.argType) /\ iter.arg # TokDD

\* C5: with first-operand-stops, the iteration that meets an operand appends
\* it and all remaining input to the output in input order and ends parsing;
\* no Set call is made by it, and every Set call of the parse was for a token
\* before the operand.
C5_FirstOperandStops ==
    (PosixOperandStop /\ OperandMet) =>
        /\ pc = "done"
        /\ InputArgs = << >>
        /\ OutputArgs = iter.Out \o iter.In
        /\ IterSets = << >>
        /\ \A k \in 1..Len(setLog) : setLog[k].pos < argPos

\* an operand stops the parse with a flag token behind it and a flag set
\* before it
C5_Witness ==
    /\ PosixOperandStop
    /\ OperandMet
    /\ \E k \in 2..Len(iter.In) : IsFlag(parseSingleArg(iter.In[k]).argType)
    /\ setLog # << >>


(***************************************************************************)
(* Properties of clusters and attached parameters                          *)
(***************************************************************************)
\* the letters of the last iteration's token
IterFlags == IterArg.flags

\* the last iteration took a cluster without attached parameter whose letters
\* all resolve, and the process survived it
ResolvedCluster ==
    /\ IterDone
    /\ IsCluster(IterArg.argType)
    /\ ~HasParam(IterArg.argType)
    /\ ClusterResolves(IterFlags)

\* the Set calls of the last iteration begin with one nil-Set for each letter
\* but the last, in order, and at most one call follows them
NilSetsInOrder ==
    /\ Len(IterSets) \in {Len(IterFlags) - 1, Len(IterFlags)}
    /\ \A k \in 1..(Len(IterFlags) - 1) :
          /\ IterSets[k].flag = LookupRune(IterFlags[k])
          /\ IterSets[k].value = NilArg

\* the token after the cluster is an operand
OperandNext ==
    /\ Len(iter.In) >= 2
    /\ ~IsFlag(parseSingleArg(iter.In[2]).argType)
    /\ iter.In[2] # TokDD

\* the Set call made for the last letter of the cluster
LastSet == IterSets[Len(IterFlags)]
LastFlag == LookupRune(IterFlags[Len(IterFlags)])

\* C6 as stated: after a cluster whose letters all resolve, the letters but
\* the last were set with nil once each in order; a non-boolean last flag
\* followed by an operand is set with it and the operand is consumed; a
\* boolean last flag is set with nil and the next token stays in the input.
C6_AsStated ==
    ResolvedCluster =>
        /\ NilSetsInOrder
        /\ (OperandNext /\ ~IsBool(LastFlag)) =>
              /\ Len(IterSets) = Len(IterFlags)
              /\ LastSet.flag = LastFlag
              /\ LastSet.value = iter.In[2]
              /\ InputArgs = SubSeq(iter.In, 3, Len(iter.In))
              /\ OutputArgs = iter.Out
        /\ (OperandNext /\ IsBool(LastFlag)) =>
              /\ Len(IterSets) = Len(IterFlags)
              /\ LastSet.flag = LastFlag
              /\ LastSet.value = NilArg
              /\ InputArgs = Tail(iter.In)
              /\ OutputArgs = iter.Out

\* C6: as C6_AsStated, but the operand after a non-boolean last flag is
\* consumed only if the Set call with it succeeded; after a failed Set it is
\* still the head of the input, to be processed on its own.
C6_ClusterThenPeek ==
    ResolvedCluster =>
        /\ NilSetsInOrder
        /\ (OperandNext /\ ~IsBool(LastFlag)) =>
              /\ Len(IterSets) = Len(IterFlags)
              /\ LastSet.flag = LastFlag
              /\ LastSet.value = iter.In[2]
              /\ InputArgs = IF LastSet.err THEN Tail(iter.In)
                             ELSE SubSeq(iter.In, 3, Len(iter.In))
              /\ OutputArgs = iter.Out
        /\ (OperandNext /\ IsBool(LastFlag)) =>
              /\ Len(IterSets) = Len(IterFlags)
              /\ LastSet.flag = LastFlag
              /\ LastSet.value = NilArg
              /\ InputArgs = Tail(iter.In)
              /\ OutputArgs = iter.Out

\* a cluster of two resolved letters took the operand after it as the
\* argument of its last flag
C6_Witness ==
    /\ ResolvedCluster
    /\ OperandNext
    /\ iter.arg = TokAS
    /\ ~LastSet.err
    /\ Value[LastFlag] = TokOperand

\* the first letter of the cluster that does not resolve (0: none)
FirstUnresolved ==
    IF ClusterResolves(IterFlags) THEN 0
    ELSE CHOOSE k \in 1..Len(IterFlags) :
            /\ LookupRune(IterFlags[k]) = NilFlag
            /\ \A j \in 1..(k - 1) : LookupRune(IterFlags[j]) # NilFlag

\* the cluster is handed to the -NUM flag
NumIdiom ==
    /\ IsNumber(IterArg.argType)
    /\ IterArg.param = << >>
    /\ LookupRune(NoShort) # NilFlag

\* C7 as stated: a cluster letter after the first does not resolve.  The flag
\* of the letter before it is set with the text of the token from the failing
\* letter to the end of the token, and that is the last Set call made for the
\* token: no later letter is set.
C7_AsStated ==
    (IterDone /\ IsCluster(IterArg.argType) /\ FirstUnresolved > 1 /\ ~NumIdiom) =>
        /\ Len(IterSets) = FirstUnresolved - 1
        /\ IterSets[Len(IterSets)].flag = LookupRune(IterFlags[FirstUnresolved - 1])
        /\ IterSets[Len(IterSets)].value =
               SubSeq(iter.arg, FirstUnresolved + 1, Len(iter.arg))

\* the text after the first "=" of a token
AfterEq(tok) == SubSeq(tok, FirstEq(tok) + 1, Len(tok))

\* the last iteration took a token with attached parameter whose flag
\* resolves, and its Set call was reached
AttachedResolved ==
    /\ iter # NoIter
    /\ HasParam(IterArg.argType)
    /\ TokenFlag(iter.arg) # NilFlag
    /\ IterDone \/ ~IsCluster(IterArg.argType)

\* C8: the flag of a token with an "="-attached parameter P is set with P if
\* the token is a long flag; if it is a short flag or a cluster it is set
\* with "=" and P when PosixEquals is on and with P when it is off.
C8_AttachedParameter ==
    AttachedResolved =>
        /\ IterSets # << >>
        /\ IterSets[Len(IterSets)].flag = TokenFlag(iter.arg)
        /\ IterSets[Len(IterSets)].value =
               IF IsLongFlag(IterArg.argType) \/ ~PosixEquals
               THEN AfterEq(iter.arg)
               ELSE <<"=">> \o AfterEq(iter.arg)

\* a long flag took its attached parameter with PosixEquals on
C8_Witness ==
    /\ AttachedResolved
    /\ PosixEquals
    /\ iter.arg = TokSnakeEqP
    /\ Value[TokenFlag(iter.arg)] = TokOperand

\* what the failure policy leaves of the process after one report
AfterFailf ==
    IF "Continue" \in OnFail THEN {"scanning", "done"}
    ELSE IF "Panic" \in OnFail THEN {"panicked"}
    ELSE {"exited"}

\* C9 as stated: a cluster whose first letter does not resolve and that is
\* not handed to the -NUM flag is reported once through the failure policy
\* and sets no flag; under the continue policy the loop goes on with the
\* token after it.
C9_AsStated ==
    (iter # NoIter /\ IsCluster(IterArg.argType) /\ FirstUnresolved = 1 /\ ~NumIdiom) =>
        /\ IterSets = << >>
        /\ Len(errOut) = iter.nerr + 1
        /\ pc \in AfterFailf
        /\ "Continue" \in OnFail => InputArgs = Tail(iter.In)


(***************************************************************************)
(* Properties of mutex groups                                              *)
(***************************************************************************)
\* the Set calls a step of the parse loop makes
StepSets == SubSeq(setLog', Len(setLog) + 1, Len(setLog'))

\* the flags of a group that a step sets successfully
StepWinners(grp) ==
    {StepSets[k].flag : k \in {j \in 1..Len(StepSets) :
                                  /\ ~StepSets[j].err
                                  /\ grp \in flagTab[StepSets[j].flag].Mutexes}}

\* a step that empties the claim table the way Reset does
Releases ==
    /\ pc' = pc
    /\ \A grp \in DOMAIN Mutex : Mutex'[grp] = NilFlag
    /\ InputArgs' = << >>
    /\ OutputArgs' = << >>

\* what C10 asks of one step
MutexStep ==
    /\ pc = "scanning" =>
          /\ \A grp \in DOMAIN Mutex :
                /\ Cardinality(StepWinners(grp)) <= 1
                /\ StepWinners(grp) # {} => Mutex'[grp] \in StepWinners(grp)
                /\ Mutex[grp] # NilFlag =>
                      /\ StepWinners(grp) \subseteq {Mutex[grp]}
                      /\ Mutex'[grp] = Mutex[grp]
          /\ \A f \in DOMAIN flagTab :
                (\A k \in 1..Len(StepSets) : StepSets[k].flag = f => StepSets[k].err)
                    => Value'[f] = Value[f]
    /\ pc # "scanning" => (Mutex' = Mutex \/ Releases)

\* C10: in every step at most one flag of a mutex group is set successfully,
\* and it then holds the group's claim; while a group is claimed only its
\* holder can be set, a Set on another flag of the group fails and leaves
\* that flag's target as it was; a claim outlives the Parse call and a later
\* Parse call does not release it: only Reset does.
C10_MutexGroups == [][MutexStep]_vars

\* a second Parse on the registry, not reset, fails to set d after c has
\* claimed the group
C10_Witness ==
    /\ parses = 2
    /\ args = <<TokD>>
    /\ Mutex["pet"] = LookupRune("c")
    /\ Value[LookupRune("c")] = TRUE
    /\ setLog # << >>
    /\ setLog[Len(setLog)].flag = LookupRune("d")
    /\ setLog[Len(setLog)].err
    /\ Value[LookupRune("d")] = FALSE

(***************************************************************************)
(* Properties of the -NUM idiom                                            *)
(***************************************************************************)
\* the reserved -NUM flag, NilFlag when none is registered
NumFlag == LookupRune(NoShort)

\* the token is "-" followed by one or more decimal digits and nothing else
DigitToken(tok) ==
    /\ Len(tok) >= 2
    /\ tok[1] = "-"
    /\ \A k \in 2..Len(tok) : tok[k] \in Digits

\* the last iteration took a digit token while a -NUM flag was registered
NumTokenTaken == iter # NoIter /\ NumFlag # NilFlag /\ DigitToken(iter.arg)

\* the reports the loop makes for a flag it does not know
UnknownFlagReports == {"flag not defined (NaN)", "flag -NUM not defined"}

\* the last iteration reported an unknown flag
ReportedUnknown ==
    \E k \in (iter.nerr + 1)..Len(errOut) : errOut[k] \in UnknownFlagReports

NumTokenRoutable ==
    /\ NumTokenTaken
    /\ FitsUint64(Tail(iter.arg))
    /\ Len(iter.arg) = 2 => LookupStr(Tail(iter.arg)) = NilFlag

IsNumIdiomFlag(cfg) == cfg.Short = NoShort /\ cfg.Long = NoLong

\* the short rune of the flag object is a decimal digit
HasDigitShort(cfg) == cfg.Short \in Digits

\* the flags AddFlag accepted into a flag list
NumFlagsIn(list) == {k \in DOMAIN list : IsNumIdiomFlag(flagTab[list[k]])}
DigitFlagsIn(list) == {k \in DOMAIN list : HasDigitShort(flagTab[list[k]])}

\* what C12 asks of one AddFlag call and of the registry it leaves
NumExclusiveStep ==
    LET new == flagTab'[Len(flagTab')]
        rejected == addErrs' = addErrs + 1 /\ FlagList' = FlagList
        R == [LongTrie |-> LongTrie', ShortDict |-> ShortDict',
              HasHyphenNumIdiom |-> HasHyphenNumIdiom',
              HasNumberShorts |-> HasNumberShorts', FlagList |-> FlagList']
    IN Len(flagTab') = Len(flagTab) + 1 =>
          /\ (IsNumIdiomFlag(new) /\ NumFlagsIn(FlagList) # {}) => rejected
          /\ (IsNumIdiomFlag(new) /\ DigitFlagsIn(FlagList) # {}) => rejected
          /\ (HasDigitShort(new) /\ NumFlagsIn(FlagList) # {}) => rejected
          /\ Cardinality({k \in DOMAIN FlagList' :
                             IsNumIdiomFlag(flagTab'[FlagList'[k]])}) <= 1
          /\ ~(/\ \E k \in DOMAIN FlagList' : IsNumIdiomFlag(flagTab'[FlagList'[k]])
               /\ \E k \in DOMAIN FlagList' : HasDigitShort(flagTab'[FlagList'[k]]))
          /\ ~(/\ LookupShort(R, NoShort) # NilFlag
               /\ \E d \in Digits : LookupShort(R, d) # NilFlag)

\* C12: at most one -NUM flag is in the flag list, and a -NUM flag and a
\* flag with a digit short rune are never both in it nor both resolvable:
\* AddFlag returns an error for a -NUM flag when a -NUM flag or a digit short
\* is registered, and for a digit short when a -NUM flag is registered.
C12_NumExclusive == [][NumExclusiveStep]_vars

\* a -NUM flag was accepted, then a digit short and a second -NUM flag were
\* both rejected
C12_Witness ==
    /\ Len(flagTab) = 3
    /\ FlagList = <<1>>
    /\ IsNumIdiomFlag(flagTab[1])
    /\ HasDigitShort(flagTab[2])
    /\ IsNumIdiomFlag(flagTab[3])
    /\ addErrs = 2

(***************************************************************************)
(* Properties of a failed Set on a detached argument                       *)
(***************************************************************************)
\* The last iteration resolved a non-boolean flag without attached
\* parameter, found a non-flag token next, called Set with it and Set
\* failed; the process survived the failure.
FailedDetached ==
    /\ IterDone
    /\ TokenFlag(iter.arg) # NilFlag
    /\ ~IsBool(TokenFlag(iter.arg))
    /\ ~HasParam(IterArg.argType)
    /\ OperandNext
    /\ IterSets # << >>
    /\ IterSets[Len(IterSets)].flag = TokenFlag(iter.arg)
    /\ IterSets[Len(IterSets)].value = iter.In[2]
    /\ IterSets[Len(IterSets)].err

\* C13 as stated: when setting the flag with the detached token fails, the
\* token has nevertheless been consumed from the input.
C13_AsStated == FailedDetached => InputArgs = SubSeq(iter.In, 3, Len(iter.In))

\* what the loop does around a failed Set on a detached argument: the token
\* is still the head of the input afterwards and the output is untouched,
\* and the next iteration appends it to the output as an operand
FailedDetachedStep ==
    /\ FailedDetached' =>
          /\ InputArgs' = Tail(iter'.In)
          /\ OutputArgs' = iter'.Out
    /\ (FailedDetached /\ pc = "scanning" /\ iter' # iter) =>
          /\ iter'.arg = iter.In[2]
          /\ SubSeq(OutputArgs', 1, Len(OutputArgs) + 1) =
                 Append(OutputArgs, iter.In[2])
          /\ Len(setLog') = Len(setLog)

\* C13: when setting a non-boolean flag with the detached non-flag token
\* that follows it fails, the token is not consumed: it stays at the head
\* of the input and the next iteration processes it as an operand, which
\* puts it in the output.
C13_FailedSetKeepsToken == [][FailedDetachedStep]_vars

\* "-an p" under the continue policy: the unsigned flag n refused "p", which
\* is still in the input
C13_Witness ==
    /\ FailedDetached
    /\ iter.arg = TokAN
    /\ pc = "scanning"
    /\ InputArgs = <<TokOperand>>
    /\ Value[TokenFlag(TokAN)] = 0

(***************************************************************************)
(* Properties of Flag.Set                                                  *)
(***************************************************************************)
\* the step is a call of Flag.Set by the program
IsSetCall == argPos' = argPos + 1 /\ Len(setLog') = 1

\* the flag the call is made on, its configuration, and the call's record
CalledFlag == setLog'[1].flag
CalledCfg == flagTab[CalledFlag]
TheCall == setLog'[1]

\* the flag is scalar, not repeatable, no counter and has no callback
PlainScalar(cfg) == ~cfg.Repeats /\ ~cfg.Counter /\ ~cfg.Callback

\* what C14 asks of a Set call
IllegalRepeatStep ==
    (IsSetCall /\ PlainScalar(CalledCfg) /\ Count[CalledFlag] >= 1) =>
        /\ TheCall.err
        /\ Value'[CalledFlag] = Value[CalledFlag]
        /\ (/\ Count[CalledFlag] = 1
            /\ ~setLog[1].err
            /\ setLog[1].value # NilArg) =>
               Value'[CalledFlag] = FromStr(CalledCfg.Kind, setLog[1].value).v

CallbackStep ==
    (IsSetCall /\ CalledCfg.Callback) =>
        /\ cbLog' = <<[flag |-> CalledFlag, arg |-> CallbackArg(TheCall.value),
                       pos |-> TheCall.pos]>>
        /\ Value' = Value
        /\ Count' = Count
        /\ TheCall.err <=> CallbackArg(TheCall.value) \in CalledCfg.Rejects
        /\ errOut' = << >>
        /\ pc' = pc

ReachesEnumCheck ==
    /\ IsSetCall
    /\ CalledCfg.DefaultIsSlice
    /\ ~CalledCfg.Callback
    /\ ~CalledCfg.Counter
    /\ Count[CalledFlag] >= 1 => (CalledCfg.Repeats /\ ~CalledCfg.IgnoreRepeats)
    /\ TheCall.value # NilArg

\* the value of the call, coerced to the type of the list elements, equals
\* an element of the list
EqualsListElement ==
    /\ ~FromStr(CalledCfg.Kind, TheCall.value).err
    /\ \E k \in DOMAIN CalledCfg.Default :
          CalledCfg.Default[k] = FromStr(CalledCfg.Kind, TheCall.value).v

\* what C16 asks of a Set call
EnumDefaultStep ==
    ReachesEnumCheck =>
        IF EqualsListElement
        THEN /\ ~TheCall.err
             /\ Value'[CalledFlag] = FromStr(CalledCfg.Kind, TheCall.value).v
        ELSE /\ TheCall.err
             /\ Value'[CalledFlag] = Value[CalledFlag]

RepeatableBoolNil ==
    /\ IsSetCall
    /\ CalledCfg.Kind = "bool"
    /\ CalledCfg.Repeats
    /\ ~CalledCfg.IgnoreRepeats
    /\ ~CalledCfg.Callback
    /\ TheCall.value = NilArg

\* what C17 asks of a Set call
ToggleStep == RepeatableBoolNil => Value'[CalledFlag] = ~Value[CalledFlag]

\* C17 as stated: every no-argument occurrence of a boolean flag that allows
\* repeats toggles the target, so the value alternates between true and
\* false.
C17_AsStated == [][ToggleStep]_vars

(***************************************************************************)
(* Properties of the trie                                                  *)
(***************************************************************************)
\* the keys stored in the long-name trie when every Add call succeeded, and
\* the value stored with a key
StoredKeys == RegisteredLongs
StoredValue(K) == CHOOSE f \in DOMAIN flagTab : flagTab[f].Long = K

\* the stored keys that have Q as a prefix
Extensions(Q) == {K \in StoredKeys : IsPrefix(Q, K)}

\* the queries: every prefix of a name of the model, the empty string
\* included, and strings that are no prefix of any
TrieQueries ==
    UNION {Prefixes(L) : L \in RegLongs \ {NoLong}} \cup
    {<<"b", "b">>, <<"c">>, <<"a", "b", "x">>, <<"a", "b", "c", "d">>, <<"b", "a", "b">>}

\* what Get(Q) is to return
ExpectedGet(Q) ==
    IF Q \in StoredKeys THEN StoredValue(Q)
    ELSE IF Cardinality(Extensions(Q)) = 1 THEN StoredValue(The(Extensions(Q)))
    ELSE NilFlag

\* C18: after Add calls that all succeeded, Get(Q) is the value of Q if Q is
\* a stored key, else the value of the only stored key that has Q as a
\* prefix, and no match if there are several such keys or none.
C18_TrieGet ==
    addErrs = 0 => \A Q \in TrieQueries : TrieGet(LongTrie, Q) = ExpectedGet(Q)

\* three keys: "ab" is a prefix of "abc" alone, "a" of "abc" and "ac", "b" of
\* "ba" alone
C18_Witness ==
    /\ addErrs = 0
    /\ StoredKeys = {<<"a", "b", "c">>, <<"a", "c">>, <<"b", "a">>}
    /\ TrieGet(LongTrie, <<"a", "b">>) = StoredValue(<<"a", "b", "c">>)
    /\ TrieGet(LongTrie, <<"a">>) = NilFlag
    /\ TrieGet(LongTrie, <<"b">>) = StoredValue(<<"b", "a">>)
    /\ TrieGet(LongTrie, <<"a", "b", "c", "d">>) = NilFlag

(***************************************************************************)
(* Properties of registration                                              *)
(***************************************************************************)
\* the short rune or the long name of the identity belongs to a flag or
\* alias that AddFlag accepted
AlreadyRegistered(id) ==
    \E k \in DOMAIN FlagList :
        \/ id.Short # NoShort /\ flagTab[FlagList[k]].Short = id.Short
        \/ id.Long # NoLong /\ flagTab[FlagList[k]].Long = id.Long

\* the step registers a flag or an alias with an identity already registered
RegistersDuplicate ==
    /\ pc = "idle"
    /\ \E k \in DOMAIN args' : AlreadyRegistered(args'[k])

\* C19 as stated: registering a flag or an alias whose short letter or long
\* name is already registered ends the process at once, by panic or exit,
\* under every failure policy and through Var, WithAlias and Equ alike.
C19_AsStated == [][RegistersDuplicate => pc' \in {"panicked", "exited"}]_vars

(***************************************************************************)
(* Properties of the flag options                                          *)
(***************************************************************************)
\* the set-handling mode an option asks for
ModeOf(opt) ==
    CASE opt \in {"WithRepeats(false)", "WithRepeats(true)"} -> "repeats"
      [] opt = "AsCounter" -> "counter"
      [] opt \in {"WithCallback", "WithCallback(strict)"} -> "callback"

\* the modes asked for by a list of options
ModesOf(opts) == {ModeOf(opts[k]) : k \in {j \in DOMAIN opts : opts[j] \in ModeOptions}}

\* the modes a Flag object carries
ModesCarried(cfg) ==
    (IF cfg.Repeats THEN {"repeats"} ELSE {}) \cup
    (IF cfg.Counter THEN {"counter"} ELSE {}) \cup
    (IF cfg.Callback THEN {"callback"} ELSE {})

\* C20 as stated: a NewFlag call given more than one of WithRepeats,
\* AsCounter and WithCallback, in any order, has panicked and made no flag,
\* and no flag carries two of the modes.
C20_AsStated ==
    /\ \A k \in DOMAIN optLog :
          Cardinality(ModesOf(optLog[k].opts)) > 1 =>
              (pc = "panicked" /\ k > Len(flagTab))
    /\ \A f \in DOMAIN flagTab : Cardinality(ModesCarried(flagTab[f])) <= 1

(***************************************************************************)
(* Properties of aliases                                                   *)
(***************************************************************************)
\* the flag is an alias
IsAlias(f) == flagTab[f].AliasFor # NilFlag

\* the flags and aliases AddFlag accepted
Registered == {FlagList[k] : k \in DOMAIN FlagList}

\* a registered alias whose target is itself an alias
DoubleAliases == {f \in Registered : IsAlias(f) /\ IsAlias(flagTab[f].AliasFor)}

\* C21 as stated: an alias whose target is itself an alias is never
\* registered, so no registry holds an alias chain of more than one hop.
C21_AsStated == DoubleAliases = {}

(***************************************************************************)
(* Properties of the failure policy                                        *)
(***************************************************************************)
\* the step calls Failf
FailfStep == failfs' > failfs

\* the step prints one message for each of its Failf calls
PrintsEach == Len(errOut') - Len(errOut) = failfs' - failfs

\* C22: a step that reports a failure prints the message of each report
\* unless the silent bit is set, in which case it prints nothing; and,
\* whatever the silent bit, with the continue bit the program goes on, without
\* it and with the panic bit the first report panics, and with neither the
\* first report ends the process with the registry's FailExitCode.
C22_FailPolicy ==
    [][FailfStep =>
          /\ IF "Silent" \in OnFail THEN errOut' = errOut ELSE PrintsEach
          /\ IF "Continue" \in OnFail
             THEN pc' \in {"scanning", "done"} /\ exitCode' = << >>
             ELSE /\ failfs' = failfs + 1
                  /\ IF "Panic" \in OnFail
                     THEN pc' = "panicked" /\ exitCode' = << >>
                     ELSE pc' = "exited" /\ exitCode' = <<FailExitCode>>]_vars

\* a silent registry with an exit code of its own has ended the process with
\* that code on its first failure, printing nothing
C22_Witness ==
    /\ OnFail = {"Silent"}
    /\ FailExitCode # DefaultFailExitCode
    /\ failfs = 1
    /\ errOut = << >>
    /\ pc = "exited"
    /\ exitCode = <<FailExitCode>>

(***************************************************************************)
(* Properties of Reset                                                     *)
(***************************************************************************)
\* the step is a call of Reset: the program is between parses and stays
\* there
IsResetCall == pc \in {"idle", "done"} /\ pc' = pc

\* C23: after Reset the count of every registered flag is 0, every mutex
\* group is unclaimed and the input and the output queue are empty, and the
\* flags, the short map, the long-name trie, the -NUM binding, the flag list
\* and the mutex groups are what they were before.
C23_Reset ==
    [][IsResetCall =>
          /\ \A f \in Registered : Count'[f] = 0
          /\ \A grp \in DOMAIN Mutex' : Mutex'[grp] = NilFlag
          /\ InputArgs' = << >>
          /\ OutputArgs' = << >>
          /\ Registry' = Registry
          /\ flagTab' = flagTab
          /\ DOMAIN Mutex' = DOMAIN Mutex]_vars

\* Reset has acted after a Parse that set a flag of a mutex group and left
\* an operand in the output: the parse is done and has set a flag without
\* error, yet no flag has a count, no group is claimed and the output is
\* empty
C23_Witness ==
    /\ pc = "done"
    /\ \E k \in DOMAIN setLog : ~setLog[k].err /\ flagTab[setLog[k].flag].Mutexes # {}
    /\ \E k \in DOMAIN args : args[k] = TokOperand
    /\ \A f \in Registered : Count[f] = 0
    /\ \A grp \in DOMAIN Mutex : Mutex[grp] = NilFlag
    /\ OutputArgs = << >>

(***************************************************************************)
(* Properties of the argument position                                     *)
(***************************************************************************)
\* the 1-based index, in the argument list given to Parse, of the token at
\* the head of the input
PosOfHead == Len(args) - Len(InputArgs) + 1

\* the step is an iteration of the parse loop
IsLoopStep == pc = "scanning" /\ InputArgs # << >>

\* C24: every Set call and every callback invocation an iteration of the
\* loop makes is given the 1-based index, in the argument list of Parse, of
\* the token the iteration processes, whatever tokens came before it:
\* options, consumed option-arguments or operands.
C24_Position ==
    [][IsLoopStep =>
          /\ PosOfHead \in DOMAIN args
          /\ args[PosOfHead] = Head(InputArgs)
          /\ \A k \in (Len(setLog) + 1)..Len(setLog') : setLog'[k].pos = PosOfHead
          /\ \A k \in (Len(cbLog) + 1)..Len(cbLog') : cbLog'[k].pos = PosOfHead]_vars

\* after an operand, an option with its detached argument, and the callback
\* option: s was set at position 2 and the callback invoked at position 4
C24_Witness ==
    /\ args = <<TokOperand, TokS, TokOperand, TokK>>
    /\ pc = "done"
    /\ \E k \in DOMAIN setLog :
          setLog[k].pos = 2 /\ setLog[k].value = TokOperand /\ ~setLog[k].err
    /\ Len(cbLog) = 1
    /\ cbLog[1].pos = 4

(***************************************************************************)
(* Properties of the resolution of a letter                                *)
(***************************************************************************)
\* the letters that begin a short rune or a long name of the registry
\* specification
QueryLetters == {"a", "b", "7"}

\* the flag parse resolves the token "-x" or "--x" to: both reach Lookup with
\* the one-letter string
StandaloneFlag(x) == LookupStr(<<x>>)

\* the flag the cluster walk resolves the letter x to: Lookup with the rune
ClusterFlag(x) == LookupRune(x)

\* C25 as stated: a letter resolves to the same flag, or to none, as the
\* token "-x", as "--x" and as a letter of a cluster.
C25_AsStated == \A x \in QueryLetters : StandaloneFlag(x) = ClusterFlag(x)

(***************************************************************************)
(* Properties of a flag followed by "--"                                   *)
(***************************************************************************)
\* the last iteration found a boolean flag without attached parameter and
\* "--" next
BoolThenDD == FlagThenDD /\ flagTab[TokenFlag(iter.arg)].Kind = "bool"

\* C26 as stated: a boolean flag immediately followed by "--" has been set
\* with nil, as before any other token, when parsing halts at the "--".
C26_AsStated ==
    BoolThenDD =>
        \E k \in DOMAIN IterSets :
            /\ IterSets[k].flag = TokenFlag(iter.arg)
            /\ IterSets[k].value = NilArg

\* C27 as stated: when Parse has returned, no "--" is in the output that the
\* loop had produced before its last iteration, and if the last iteration
\* met "--" it added the tokens after the "--" to the output and nothing
\* else: a "--" in the output was a token after the point where parsing
\* halted.
C27_AsStated ==
    (pc = "done" /\ iter # NoIter) =>
        /\ \A j \in 1..Len(iter.Out) : OutputArgs[j] # TokDD
        /\ iter.arg = TokDD => OutputArgs = iter.Out \o Tail(iter.In)

(***************************************************************************)
(* Properties of the cluster walk                                          *)
(***************************************************************************)
\* the flag takes no argument: its target is a boolean
TakesNoArgument(f) == flagTab[f].Kind = "bool"

\* the Set calls the last iteration made with nil for a letter of a cluster
\* that is not its last letter
WalkNilSets ==
    {k \in DOMAIN IterSets :
        /\ IterSets[k].value = NilArg
        /\ \E j \in 1..(Len(IterFlags) - 1) : IterSets[k].flag = LookupRune(IterFlags[j])}

\* C28 as stated: in a cluster walk only flags that take no argument are set
\* with nil; a flag that requires an argument is not, whatever the letter
\* after it resolves to.
C28_AsStated ==
    (iter # NoIter /\ IsCluster(IterArg.argType)) =>
        \A k \in WalkNilSets : TakesNoArgument(IterSets[k].flag)

\* a non-empty string of decimal digits
IsDigitString(str) == Len(str) > 0 /\ \A k \in 1..Len(str) : str[k] \in Digits

\* the last iteration took a cluster with a letter that does not resolve,
\* while a -NUM flag was registered
UnresolvedWithNum ==
    /\ iter # NoIter
    /\ IsCluster(IterArg.argType)
    /\ NumFlag # NilFlag
    /\ FirstUnresolved > 0

\* the text of the token from the first unresolved letter to its end
UnresolvedText == SubSeq(iter.arg, FirstUnresolved + 1, Len(iter.arg))

\* the Set calls of the last iteration on the -NUM flag
NumSets == {k \in DOMAIN IterSets : IterSets[k].flag = NumFlag}

\* C29 as stated: a cluster letter does not resolve, a -NUM flag is
\* registered and the token from that letter on is an unsigned decimal
\* integer; then the -NUM flag is set once, with exactly that digit string.
C29_AsStated ==
    (UnresolvedWithNum /\ IsDigitString(UnresolvedText)) =>
        /\ Cardinality(NumSets) = 1
        /\ \A k \in NumSets : IterSets[k].value = UnresolvedText

\* the whole cluster is a decimal integer of 64 bits and no text follows an
\* "="
WholeClusterNumeric ==
    /\ IsDigitString(IterFlags)
    /\ FitsUint64(IterFlags)
    /\ IterArg.param = << >>

\* C29: with a -NUM flag registered, a cluster whose letters are all digits
\* of a value of 64 bits, with no text after an "=", is handed whole to the
\* -NUM flag by one Set call when its first letter fails to resolve.  When a
\* letter after the first fails to resolve, the -NUM flag is not set: the
\* text from that letter on, digits or not, is the argument the flag of the
\* letter before is set with.
C29_NumInCluster ==
    UnresolvedWithNum =>
        /\ (FirstUnresolved = 1 /\ WholeClusterNumeric) =>
              /\ Len(IterSets) = 1
              /\ IterSets[1].flag = NumFlag
              /\ IterSets[1].value = IterFlags
        /\ FirstUnresolved > 1 =>
              /\ NumSets = {}
              /\ Len(IterSets) <= FirstUnresolved - 1
              /\ pc \in {"scanning", "done"} => Len(IterSets) = FirstUnresolved - 1
              /\ Len(IterSets) = FirstUnresolved - 1 =>
                    /\ IterSets[Len(IterSets)].flag =
                           LookupRune(IterFlags[FirstUnresolved - 1])
                    /\ IterSets[Len(IterSets)].value =
                           ClusterOptarg(IterFlags, IterArg.param, FirstUnresolved)

\* "-a37": the digits after the resolved letter were given to a as its
\* argument, and the -NUM flag was not set
C29_Witness ==
    /\ UnresolvedWithNum
    /\ iter.arg = TokA37
    /\ Len(IterSets) = 1
    /\ IterSets[1].flag = LookupRune("a")
    /\ IterSets[1].value = <<"3", "7">>
    /\ Count[NumFlag] = 0

\* the last iteration took a token from which an "=" was split off
EqSplitOff == iter # NoIter /\ \E k \in DOMAIN iter.arg : iter.arg[k] = "="

\* C30 as stated: a token with an "=" is not classified as a number, and
\* the -NUM flag is not set from it.
C30_AsStated ==
    EqSplitOff =>
        /\ "Number" \notin IterArg.argType
        /\ NumSets = {}

(***************************************************************************)
(* Properties of Trie.Add and of AddFlag calls                             *)
(***************************************************************************)
\* the keys a trie holds an item for: the path to a node with an item,
\* followed by the tail of that node
RECURSIVE TrieKeys(_)
TrieKeys(t) ==
    (IF t.Item # NilFlag THEN {t.Tail} ELSE {}) \cup
    UNION {{<<r>> \o K : K \in TrieKeys(t.Nodes[r])} : r \in DOMAIN t.Nodes}

\* the step is an AddFlag call
IsAddFlagCall == Len(flagTab') = Len(flagTab) + 1

\* the flag object the call is given and its long name
AddedFlag == Len(flagTab')
AddedLong == flagTab'[AddedFlag].Long

\* the step is an AddFlag call that calls LongTrie.Add
IsTrieAddCall == IsAddFlagCall /\ AddedLong # NoLong

\* the LongTrie.Add call of the step returns an error
TrieAddFails == IsTrieAddCall /\ TrieAdd(LongTrie, AddedLong, AddedFlag).err

AddNewKeyStep ==
    (IsTrieAddCall /\ AddedLong \notin TrieKeys(LongTrie)) =>
        /\ ~TrieAddFails
        /\ TrieGet(LongTrie', AddedLong) = AddedFlag

\* C31 as stated: Add of a key that is not stored succeeds, also when the key
\* is a proper prefix of a stored key, and Get of the key then returns the
\* value added with it.
C31_AsStated == [][AddNewKeyStep]_vars

FailedAddStep ==
    TrieAddFails =>
        \A Q \in TrieQueries : TrieGet(LongTrie', Q) = TrieGet(LongTrie, Q)

\* C32 as stated: an Add that returns an error leaves Get of every query
\* string as it was before the call.
C32_AsStated == [][FailedAddStep]_vars

\* the registry after the step
RegistryAfter ==
    [LongTrie |-> LongTrie', ShortDict |-> ShortDict',
     HasHyphenNumIdiom |-> HasHyphenNumIdiom',
     HasNumberShorts |-> HasNumberShorts', FlagList |-> FlagList']

\* every lookup returns after the step what it returned before
SameLookups ==
    /\ \A r \in RegShorts \cup Digits :
          LookupShort(RegistryAfter, r) = LookupShort(Registry, r)
    /\ \A Q \in TrieQueries \ {<< >>} :
          LookupLong(RegistryAfter, Q) = LookupLong(Registry, Q)

\* the AddFlag call of the step returns an error
AddFlagFails == IsAddFlagCall /\ addErrs' = addErrs + 1

RejectedAddFlagStep == AddFlagFails => SameLookups

\* C33 as stated: an AddFlag call that returns an error leaves every lookup
\* (short rune, long name or prefix, -NUM) as it was before the call.
C33_AsStated == [][RejectedAddFlagStep]_vars

(***************************************************************************)
(* Properties of the operand output                                        *)
(***************************************************************************)
\* s is t with some elements left out
RECURSIVE IsSubseq(_, _)
IsSubseq(s, t) ==
    IF s = << >> THEN TRUE
    ELSE IF t = << >> THEN FALSE
    ELSE IF Head(s) = Head(t) THEN IsSubseq(Tail(s), Tail(t))
    ELSE IsSubseq(s, Tail(t))

\* C34 as stated: when Parse has returned, the output holds only operands of
\* the argument list of that call, whether or not Reset was called before it.
C34_AsStated == pc = "done" => IsSubseq(OutputArgs, args)

\* the step is the entry of a Parse call
IsParseCall == pc \in {"idle", "done"} /\ pc' = "scanning"

\* what the step appended to the output
Appended == SubSeq(OutputArgs', Len(OutputArgs) + 1, Len(OutputArgs'))

\* C34: Parse(args) empties and fills the input queue only: the output is
\* what it was before the call, followed by tokens the loop takes from args,
\* in their order; Reset is what empties the output.
C34_OutputAccumulates ==
    [][/\ IsParseCall => OutputArgs' = OutputArgs /\ InputArgs' = args'
       /\ IsLoopStep =>
             /\ IsPrefix(OutputArgs, OutputArgs')
             /\ IsSubseq(Appended, InputArgs)
       /\ IsResetCall => OutputArgs' = << >>]_vars

\* the second Parse has no operand in its arguments, and the output holds
\* the operand of the first
C34_Witness ==
    /\ pc = "done"
    /\ parses = 2
    /\ args = <<TokC>>
    /\ OutputArgs = <<TokOperand>>

\* the Set calls of the parse that were given the token after the flag's own
\* token as the value and accepted it: the flag's token resolved as a whole
\* and had no attached parameter, and the value is not nil
AcceptedDetached ==
    {k \in DOMAIN setLog :
        /\ ~setLog[k].err
        /\ setLog[k].value # NilArg
        /\ setLog[k].pos \in DOMAIN args
        /\ ~HasParam(parseSingleArg(args[setLog[k].pos]).argType)
        /\ TokenFlag(args[setLog[k].pos]) = setLog[k].flag}

\* the positions, in the argument list, of the accepted option-arguments
AcceptedArgPos == {setLog[k].pos + 1 : k \in AcceptedDetached}

\* s without the elements at the positions P
Without(s, P) ==
    LET keep == SelectSeq([k \in 1..Len(s) |-> k], LAMBDA k : k \notin P)
    IN [j \in 1..Len(keep) |-> s[keep[j]]]

\* C35: when a Parse on a freshly reset registry has returned under the
\* continue policy, the output is the argument list with some tokens left
\* out, in the same order, and the tokens that a flag accepted as its
\* option-argument are among those left out.
C35_OutputSubsequence ==
    (pc = "done" /\ "Continue" \in OnFail) =>
        /\ \A k \in AcceptedDetached :
              /\ setLog[k].pos < Len(args)
              /\ setLog[k].value = args[setLog[k].pos + 1]
        /\ IsSubseq(OutputArgs, Without(args, AcceptedArgPos))

\* GNU operand rule: "p -s p -a" leaves the first "p" alone in the output,
\* the second is the argument of s
C35_Witness ==
    /\ pc = "done"
    /\ "Continue" \in OnFail
    /\ args = <<TokOperand, TokS, TokOperand, TokA>>
    /\ AcceptedArgPos = {3}
    /\ OutputArgs = <<TokOperand>>

(***************************************************************************)
(* Termination of Parse                                                    *)
(***************************************************************************)
\* what the step shifted off or moved out of the input
Consumed == Len(InputArgs) - Len(InputArgs')

ContinueStep ==
    ("Continue" \in OnFail /\ IsLoopStep) =>
        /\ pc' \in {"scanning", "done"}
        /\ Consumed >= 1
        /\ InputArgs' = SubSeq(InputArgs, Consumed + 1, Len(InputArgs))
        /\ pc' = "done" => InputArgs' = << >>

\* C36 as stated: under the continue policy every iteration of the loop
\* takes at least one token off the input and none twice, and leaves the
\* process in the loop or returns from Parse with the input empty, so that
\* Parse returns after at most as many iterations as there are tokens.
C36_AsStated == [][ContinueStep]_vars

IsParseStep == pc = "scanning" \/ pc' = "scanning"

\* the lookups by short rune, the -NUM lookup included, and by long name or
\* prefix, over the names of the alias specification
SameAliasLookups ==
    /\ \A r \in AliasShorts :
          LookupShort(RegistryAfter, r) = LookupShort(Registry, r)
    /\ \A L \in AliasLongs : \A Q \in Prefixes(L) \ {<< >>} :
          LookupLong(RegistryAfter, Q) = LookupLong(Registry, Q)

\* C38: a step of Parse leaves every lookup, every flag object (identity,
\* kind, default, repeat and counter mode, callback, alias target, mutex
\* groups), the flag list and the set of mutex groups as they were; what it
\* changes is among the counts, the mutex claims, the two queues and the
\* target values.
C38_ParseKeepsSetup ==
    [][IsParseStep =>
          /\ SameAliasLookups
          /\ RegistryAfter = Registry
          /\ flagTab' = flagTab
          /\ DOMAIN Mutex' = DOMAIN Mutex
          /\ UNCHANGED cfgVars]_vars

\* Parse has set a flag through one of its aliases
C38_Witness ==
    /\ pc = "done"
    /\ setLog # << >>
    /\ ~setLog[1].err
    /\ flagTab[setLog[1].flag].AliasFor # NilFlag
    /\ Count[flagTab[setLog[1].flag].AliasFor] = 1
    /\ Value[flagTab[setLog[1].flag].AliasFor] = TRUE

(***************************************************************************)
(* Properties of the classifier                                            *)
(***************************************************************************)
\* the bit mask parseSingleArg returned for the argument of the iteration
Mask == IterArg.argType

\* C39: the mask of every argument satisfies: cluster implies flag and not
\* long; long implies not cluster; hyphen-only implies not flag; attached
\* parameter implies flag and not hyphen-only; number and long are never set
\* together.
C39_MaskInvariants ==
    iter # NoIter =>
        /\ "Cluster" \in Mask => "Flag" \in Mask /\ "Long" \notin Mask
        /\ "Long" \in Mask => "Cluster" \notin Mask
        /\ "Hyphen" \in Mask => "Flag" \notin Mask
        /\ "Param" \in Mask => "Flag" \in Mask /\ "Hyphen" \notin Mask
        /\ ~("Number" \in Mask /\ "Long" \in Mask)

\* "-33=" is a cluster and a number with an attached, empty parameter
C39_Witness ==
    /\ iter # NoIter
    /\ iter.arg = <<"-", "3", "3", "=">>
    /\ Mask = {"Flag", "Cluster", "Param", "Number"}

====
